---------------------------- MODULE Spec2Model ----------------------------
(***************************************************************************)
(* FreeRooms UF: the availability core (backend/lib/availability.ts) and   *)
(* the HTTP layer that serves it (backend/server.ts).                      *)
(*                                                                         *)
(* Strings are sequences of one-character strings, so that toUpperCase,    *)
(* padStart, localeCompare, toMinutes and formatTime12 are computed and    *)
(* not looked up.  null/undefined is NULL where a string is expected and   *)
(* NULL_OBJECT where an object is; an optional array or map that is        *)
(* undefined is a field the record lacks.                                  *)
(*                                                                         *)
(* A value that a definition uses more than once is passed as an operator  *)
(* parameter (often of a local operator) rather than named in a LET: TLC   *)
(* evaluates a parameter once and a LET definition at each use.            *)
(***************************************************************************)
EXTENDS Integers, Sequences, FiniteSets, TLC

NULL == <<"null">>

NULL_OBJECT == [null |-> TRUE]

(***************************************************************************)
(* Characters and the string primitives of the JavaScript runtime.         *)
(***************************************************************************)
Digits == <<"0", "1", "2", "3", "4", "5", "6", "7", "8", "9">>

LowerLetters ==
  <<"a", "b", "c", "d", "e", "f", "g", "h", "i", "j", "k", "l", "m",
    "n", "o", "p", "q", "r", "s", "t", "u", "v", "w", "x", "y", "z">>

UpperLetters ==
  <<"A", "B", "C", "D", "E", "F", "G", "H", "I", "J", "K", "L", "M",
    "N", "O", "P", "Q", "R", "S", "T", "U", "V", "W", "X", "Y", "Z">>

IndexIn(seq, c) ==
  IF \E i \in 1..Len(seq) : seq[i] = c
  THEN CHOOSE i \in 1..Len(seq) : seq[i] = c
  ELSE 0

IsDigit(c) == IndexIn(Digits, c) > 0

DigitVal(c) == IndexIn(Digits, c) - 1

toUpperChar(c) ==
  IF IndexIn(LowerLetters, c) > 0 THEN UpperLetters[IndexIn(LowerLetters, c)] ELSE c

\* String.prototype.toUpperCase
toUpperCase(s) == [i \in 1..Len(s) |-> toUpperChar(s[i])]

\* a padding that fills on the right
RECURSIVE padEnd(_, _, _)
padEnd(s, n, c) == IF Len(s) >= n THEN s ELSE padEnd(s \o <<c>>, n, c)

\* String.prototype.padStart(n, c) with a one-character filler
RECURSIVE padStart(_, _, _)
padStart(s, n, c) == IF Len(s) >= n THEN s ELSE padStart(<<c>> \o s, n, c)

\* Number(s) for a string of decimal digits ("" is 0)
RECURSIVE ParseNat(_)
ParseNat(s) ==
  IF s = <<>> THEN 0
  ELSE 10 * ParseNat(SubSeq(s, 1, Len(s) - 1)) + DigitVal(s[Len(s)])

\* Number.prototype.toString for a natural number
RECURSIVE NatToStr(_)
NatToStr(n) ==
  IF n < 10 THEN <<Digits[n + 1]>>
  ELSE NatToStr(n \div 10) \o <<Digits[(n % 10) + 1]>>

\* The part of s before the first ":" and the part after it (split(":"))
ColonAt(s) == CHOOSE i \in 1..Len(s) : s[i] = ":" /\ \A j \in 1..(i - 1) : s[j] # ":"

BeforeColon(s) == SubSeq(s, 1, ColonAt(s) - 1)

AfterColon(s) == SubSeq(s, ColonAt(s) + 1, Len(s))

(***************************************************************************)
(* String.prototype.localeCompare (default collation) on ASCII letters and  *)
(* digits: primary weights first (digits before letters, case ignored),    *)
(* then, on a primary tie, lower case before upper case.                   *)
(***************************************************************************)
PrimaryWeight(c) ==
  IF IsDigit(c) THEN IndexIn(Digits, c)
  ELSE IF IndexIn(UpperLetters, toUpperChar(c)) > 0
       THEN 10 + IndexIn(UpperLetters, toUpperChar(c))
       ELSE 0

CaseWeight(c) == IF IndexIn(UpperLetters, c) > 0 THEN 1 ELSE 0

RECURSIVE LexCompare(_, _, _)
LexCompare(a, b, kind) ==
  IF a = <<>> /\ b = <<>> THEN 0
  ELSE IF a = <<>> THEN -1
  ELSE IF b = <<>> THEN 1
  ELSE LET wa == IF kind = "primary" THEN PrimaryWeight(a[1]) ELSE CaseWeight(a[1])
           wb == IF kind = "primary" THEN PrimaryWeight(b[1]) ELSE CaseWeight(b[1])
       IN  IF wa < wb THEN -1
           ELSE IF wa > wb THEN 1
           ELSE LexCompare(Tail(a), Tail(b), kind)

localeCompare(a, b) ==
  IF LexCompare(a, b, "primary") # 0
  THEN LexCompare(a, b, "primary")
  ELSE LexCompare(a, b, "case")

(***************************************************************************)
(* The period table.                                                       *)
(***************************************************************************)
HHMM(h1, h2, m1, m2) == <<h1, h2, ":", m1, m2>>

PERIOD_DEFINITIONS ==
  << [code |-> <<"1">>,      start |-> HHMM("0","7","2","5"), end |-> HHMM("0","8","1","5")],
     [code |-> <<"2">>,      start |-> HHMM("0","8","3","0"), end |-> HHMM("0","9","2","0")],
     [code |-> <<"3">>,      start |-> HHMM("0","9","3","5"), end |-> HHMM("1","0","2","5")],
     [code |-> <<"4">>,      start |-> HHMM("1","0","4","0"), end |-> HHMM("1","1","3","0")],
     [code |-> <<"5">>,      start |-> HHMM("1","1","4","5"), end |-> HHMM("1","2","3","5")],
     [code |-> <<"6">>,      start |-> HHMM("1","2","5","0"), end |-> HHMM("1","3","4","0")],
     [code |-> <<"7">>,      start |-> HHMM("1","3","5","5"), end |-> HHMM("1","4","4","5")],
     [code |-> <<"8">>,      start |-> HHMM("1","5","0","0"), end |-> HHMM("1","5","5","0")],
     [code |-> <<"9">>,      start |-> HHMM("1","6","0","5"), end |-> HHMM("1","6","5","5")],
     [code |-> <<"1","0">>,  start |-> HHMM("1","7","1","0"), end |-> HHMM("1","8","0","0")],
     [code |-> <<"1","1">>,  start |-> HHMM("1","8","1","5"), end |-> HHMM("1","9","0","5")],
     [code |-> <<"E","1">>,  start |-> HHMM("1","9","2","0"), end |-> HHMM("2","0","1","0")],
     [code |-> <<"E","2">>,  start |-> HHMM("2","0","2","0"), end |-> HHMM("2","1","1","0")],
     [code |-> <<"E","3">>,  start |-> HHMM("2","1","2","0"), end |-> HHMM("2","2","1","0")] >>

IsKnownPeriod(p) == \E i \in 1..Len(PERIOD_DEFINITIONS) : PERIOD_DEFINITIONS[i].code = p

PeriodDefinition(p) ==
  PERIOD_DEFINITIONS[CHOOSE i \in 1..Len(PERIOD_DEFINITIONS) : PERIOD_DEFINITIONS[i].code = p]

\* a lookup whose fallback is the first period of the table
DefinitionOrFirstPeriod(p) ==
  IF IsKnownPeriod(p)
  THEN [start |-> PeriodDefinition(p).start, end |-> PeriodDefinition(p).end]
  ELSE [start |-> PERIOD_DEFINITIONS[1].start, end |-> PERIOD_DEFINITIONS[1].end]

\* PERIOD_DEFINITIONS[period] ?? { start: "00:00", end: "01:00" }
DefinitionOrPlaceholder(p) ==
  IF IsKnownPeriod(p)
  THEN [start |-> PeriodDefinition(p).start, end |-> PeriodDefinition(p).end]
  ELSE [start |-> HHMM("0","0","0","0"), end |-> HHMM("0","1","0","0")]

\* PERIOD_START_TIMES_24[p]: the 24-hour start, undefined (NULL) for an unknown code
PERIOD_START_TIMES_24(p) == IF IsKnownPeriod(p) THEN PeriodDefinition(p).start ELSE NULL

formatTime12(hourMinute) ==
  LET hh == ParseNat(BeforeColon(hourMinute))
      mm == ParseNat(AfterColon(hourMinute))
      period == IF hh >= 12 THEN <<"P", "M">> ELSE <<"A", "M">>
      hour == ((hh + 11) % 12) + 1
  IN  NatToStr(hour) \o <<":">> \o padStart(NatToStr(mm), 2, "0") \o <<" ">> \o period

toMinutes(hhmm) == ParseNat(BeforeColon(hhmm)) * 60 + ParseNat(AfterColon(hhmm))

DAY_SEQUENCE == << <<"M">>, <<"T">>, <<"W">>, <<"T","H">>, <<"F">>, <<"S">>, <<"S","U">> >>

\* DAY_ORDER[day] ?? 99
DAY_ORDER(day) == IF IndexIn(DAY_SEQUENCE, day) > 0 THEN IndexIn(DAY_SEQUENCE, day) - 1 ELSE 99

DAY_LABELS(day) ==
  CASE day = <<"M">> -> <<"M", "o", "n", "d", "a", "y">>
    [] day = <<"T">> -> <<"T", "u", "e", "s", "d", "a", "y">>
    [] day = <<"W">> -> <<"W", "e", "d", "n", "e", "s", "d", "a", "y">>
    [] day = <<"T","H">> -> <<"T", "h", "u", "r", "s", "d", "a", "y">>
    [] day = <<"F">> -> <<"F", "r", "i", "d", "a", "y">>
    [] day = <<"S">> -> <<"S", "a", "t", "u", "r", "d", "a", "y">>
    [] day = <<"S","U">> -> <<"S", "u", "n", "d", "a", "y">>
    [] OTHER -> day

(***************************************************************************)
(* Array.prototype.sort: a stable sort by a comparator.  Every comparator  *)
(* of the program is a weak ordering, for which each stable sort gives the *)
(* result of insertion from the left.                                      *)
(***************************************************************************)
\* a comparator that puts the codes outside the table first
comparePeriodsUnknownFirst(a, b) ==
  IF PERIOD_START_TIMES_24(a) # NULL /\ PERIOD_START_TIMES_24(b) # NULL
  THEN toMinutes(PERIOD_START_TIMES_24(a)) - toMinutes(PERIOD_START_TIMES_24(b))
  ELSE IF PERIOD_START_TIMES_24(a) # NULL THEN 1
  ELSE IF PERIOD_START_TIMES_24(b) # NULL THEN -1
  ELSE localeCompare(a, b)

\* sortPeriods' comparator
comparePeriods(a, b) ==
  LET aTime == PERIOD_START_TIMES_24(a)
      bTime == PERIOD_START_TIMES_24(b)
  IN  IF aTime # NULL /\ bTime # NULL THEN toMinutes(aTime) - toMinutes(bTime)
      ELSE IF aTime # NULL THEN -1
      ELSE IF bTime # NULL THEN 1
      ELSE localeCompare(a, b)

\* a comparator that sorts the days from SU back to M
compareDaysReversed(a, b) == DAY_ORDER(b) - DAY_ORDER(a)

\* the comparator of the days sort in normalizePeriodEntries
compareDays(a, b) == DAY_ORDER(a) - DAY_ORDER(b)

\* the comparator of the rooms sort in buildAvailabilityDataset
compareRooms(a, b) == localeCompare(a.number, b.number)

\* a comparator that orders buildings by name alone
compareBuildingsByName(a, b) == localeCompare(a.name, b.name)

\* the comparator of the buildings sort in buildAvailabilityDataset
\* (a code is truthy when it is neither null nor the empty string)
compareBuildings(a, b) ==
  LET aCode == a.code # NULL /\ a.code # <<>>
      bCode == b.code # NULL /\ b.code # <<>>
  IN  IF aCode /\ bCode THEN localeCompare(a.code, b.code)
      ELSE IF aCode THEN -1
      ELSE IF bCode THEN 1
      ELSE localeCompare(a.name, b.name)

Compare(kind, a, b) ==
  CASE kind = "periods" -> comparePeriods(a, b)
    [] kind = "days" -> compareDays(a, b)
    [] kind = "rooms" -> compareRooms(a, b)
    [] kind = "buildings" -> compareBuildings(a, b)

RECURSIVE InsertSorted(_, _, _)
InsertSorted(kind, sorted, e) ==
  IF sorted = <<>> THEN <<e>>
  ELSE IF Compare(kind, sorted[Len(sorted)], e) > 0
       THEN Append(InsertSorted(kind, SubSeq(sorted, 1, Len(sorted) - 1), e),
                   sorted[Len(sorted)])
       ELSE Append(sorted, e)

RECURSIVE StableSort(_, _)
StableSort(kind, s) ==
  IF s = <<>> THEN <<>>
  ELSE InsertSorted(kind, StableSort(kind, SubSeq(s, 1, Len(s) - 1)), s[Len(s)])

sortPeriods(periods) == StableSort("periods", periods)

(***************************************************************************)
(* Entry normalizer.  A Map or a Set is the sequence of its keys (or       *)
(* members) in insertion order.                                            *)
(***************************************************************************)
SeqHas(s, e) == \E i \in 1..Len(s) : s[i] = e

\* an add that keeps repeats: a list where the code has a Set
AddToDayRepeating(byDay, day, period) ==
  IF \E i \in 1..Len(byDay) : byDay[i].day = day
  THEN [i \in 1..Len(byDay) |->
          IF byDay[i].day = day
          THEN [byDay[i] EXCEPT !.periods = Append(@, period)]
          ELSE byDay[i]]
  ELSE Append(byDay, [day |-> day, periods |-> <<period>>])

\* byDay.get(day).add(period), creating the day's set on first use
AddToDay(byDay, day, period) ==
  IF \E i \in 1..Len(byDay) : byDay[i].day = day
  THEN [i \in 1..Len(byDay) |->
          IF byDay[i].day = day /\ ~SeqHas(byDay[i].periods, period)
          THEN [byDay[i] EXCEPT !.periods = Append(@, period)]
          ELSE byDay[i]]
  ELSE Append(byDay, [day |-> day, periods |-> <<period>>])

RECURSIVE GroupByDay(_, _)
GroupByDay(entries, byDay) ==
  IF entries = <<>> THEN byDay
  ELSE GroupByDay(Tail(entries),
                  AddToDay(byDay, toUpperCase(Head(entries).DAY),
                           toUpperCase(Head(entries).PERIOD)))

PeriodEntryOf(day, period) ==
  LET definition == DefinitionOrPlaceholder(period)
  IN  [day |-> day,
       period |-> period,
       startTime |-> formatTime12(definition.start),
       endTime |-> formatTime12(definition.end),
       startMinutes |-> toMinutes(definition.start),
       endMinutes |-> toMinutes(definition.end)]

\* the body of the loop over the sorted days, for one day
FlattenDay(day, periods) == [i \in 1..Len(periods) |-> PeriodEntryOf(day, periods[i])]

RECURSIVE Flatten(_, _)
Flatten(days, byDay) ==
  IF days = <<>> THEN <<>>
  ELSE FlattenDay(Head(days),
                  sortPeriods(byDay[CHOOSE i \in 1..Len(byDay) : byDay[i].day = Head(days)].periods))
         \o Flatten(Tail(days), byDay)

SortedDays(byDay) == StableSort("days", [i \in 1..Len(byDay) |-> byDay[i].day])

FlattenByDay(byDay) == Flatten(SortedDays(byDay), byDay)

\* a normalizer that drops the entries whose day is outside the week
normalizePeriodEntriesOfWeek(entries) ==
  FlattenByDay(GroupByDay(SelectSeq(entries, LAMBDA e : DAY_ORDER(toUpperCase(e.DAY)) < 99), <<>>))

normalizePeriodEntries(entries) == FlattenByDay(GroupByDay(entries, <<>>))

(***************************************************************************)
(* A JavaScript object used as a map is the sequence of its [key, value]   *)
(* pairs in Object.entries order: array-index keys ("0", "10", "25") in    *)
(* ascending numeric order first, then the other keys in insertion order.  *)
(***************************************************************************)
IsArrayIndex(k) ==
  /\ k # <<>>
  /\ \A i \in 1..Len(k) : IsDigit(k[i])
  /\ (Len(k) = 1 \/ k[1] # "0")

ObjHas(obj, k) == \E i \in 1..Len(obj) : obj[i].key = k

ObjGet(obj, k) == obj[CHOOSE i \in 1..Len(obj) : obj[i].key = k].value

\* obj[k] = v
ObjSet(obj, k, v) ==
  IF ObjHas(obj, k)
  THEN [i \in 1..Len(obj) |-> IF obj[i].key = k THEN [key |-> k, value |-> v] ELSE obj[i]]
  ELSE IF IsArrayIndex(k)
  THEN LET before == {i \in 1..Len(obj) :
                        IsArrayIndex(obj[i].key) /\ ParseNat(obj[i].key) < ParseNat(k)}
           n == Cardinality(before)
       IN  SubSeq(obj, 1, n) \o <<[key |-> k, value |-> v]>> \o SubSeq(obj, n + 1, Len(obj))
  ELSE Append(obj, [key |-> k, value |-> v])

(***************************************************************************)
(* Dataset builder.                                                        *)
(***************************************************************************)
\* a string is truthy when it is neither null nor empty
Truthy(str) == str # NULL /\ str # <<>>

\* the clock reading of `new Date().toISOString()`
NOW == <<"n", "o", "w">>

TYPE_ERROR == [error |-> "TypeError"]

\* a key made of the building code and room number as they are written
ClassroomKeyAsWritten(room) == room.buildingCode \o <<"-">> \o room.roomNumber

\* the key of classroomMap.set(key, room)
ClassroomKey(room) ==
  toUpperCase(room.buildingCode) \o <<"-">> \o toUpperCase(room.roomNumber)

\* classroomMap.get(key): the last record set under the key, or undefined
ClassroomGet(classrooms, key) ==
  IF classrooms = NULL_OBJECT \/ "rooms" \notin DOMAIN classrooms THEN NULL_OBJECT
  ELSE LET hits == {i \in 1..Len(classrooms.rooms) : ClassroomKey(classrooms.rooms[i]) = key}
       IN  IF hits = {} THEN NULL_OBJECT
           ELSE classrooms.rooms[CHOOSE i \in hits : \A j \in hits : j <= i]

MetadataOf(meta) ==
  IF meta = NULL_OBJECT THEN NULL_OBJECT
  ELSE [capacity |-> meta.capacity,
        photo |-> meta.photo,
        gallery |-> meta.gallery,
        features |-> meta.features,
        featureFlags |-> meta.featureFlags,
        detailUrl |-> meta.detailUrl]

\* groupedByRoom.get(roomNumber).push(entry), creating the room's list on first use
AddToRoom(grouped, roomNumber, entry) ==
  IF \E i \in 1..Len(grouped) : grouped[i].roomNumber = roomNumber
  THEN [i \in 1..Len(grouped) |->
          IF grouped[i].roomNumber = roomNumber
          THEN [grouped[i] EXCEPT !.entries = Append(@, entry)]
          ELSE grouped[i]]
  ELSE Append(grouped, [roomNumber |-> roomNumber, entries |-> <<entry>>])

\* groupedByRoom: zero-padded room number -> the raw entries of that room
RECURSIVE GroupByRoom(_, _)
GroupByRoom(entries, grouped) ==
  IF entries = <<>> THEN grouped
  ELSE GroupByRoom(Tail(entries),
                   AddToRoom(grouped, padStart(Head(entries).ROOM, 4, "0"), Head(entries)))

\* one iteration of the loop over groupedByRoom.entries()
\* roomsMap.get(roomNumber), created with its metadata when it is not there yet
WithRoom(roomsMap, roomNumber, code, classrooms) ==
  IF \E i \in 1..Len(roomsMap) : roomsMap[i].number = roomNumber
  THEN roomsMap
  ELSE LET metaKey == IF Truthy(code) /\ Truthy(roomNumber)
                      THEN code \o <<"-">> \o roomNumber
                      ELSE NULL
           meta == IF metaKey # NULL THEN ClassroomGet(classrooms, metaKey) ELSE NULL_OBJECT
       IN  Append(roomsMap,
                  [number |-> roomNumber, metadata |-> MetadataOf(meta), availability |-> <<>>])

\* an assignment that leaves a size bucket the room already has as it is
AttachPeriodsKeepFirst(roomsMap, roomNumber, size, normalized) ==
  IF Len(normalized) > 0
  THEN [i \in 1..Len(roomsMap) |->
          IF roomsMap[i].number = roomNumber /\ ~ObjHas(roomsMap[i].availability, size)
          THEN [roomsMap[i] EXCEPT !.availability = ObjSet(@, size, [periods |-> normalized])]
          ELSE roomsMap[i]]
  ELSE roomsMap

\* roomRecord.availability[size] = { periods: normalized } when there are periods
AttachPeriods(roomsMap, roomNumber, size, normalized) ==
  IF Len(normalized) > 0
  THEN [i \in 1..Len(roomsMap) |->
          IF roomsMap[i].number = roomNumber
          THEN [roomsMap[i] EXCEPT !.availability = ObjSet(@, size, [periods |-> normalized])]
          ELSE roomsMap[i]]
  ELSE roomsMap

AttachRoom(roomsMap, roomNumber, roomEntries, size, code, classrooms) ==
  AttachPeriods(WithRoom(roomsMap, roomNumber, code, classrooms),
                roomNumber, size, normalizePeriodEntries(roomEntries))

RECURSIVE AttachRooms(_, _, _, _, _)
AttachRooms(roomsMap, grouped, size, code, classrooms) ==
  IF grouped = <<>> THEN roomsMap
  ELSE AttachRooms(
         AttachRoom(roomsMap, Head(grouped).roomNumber, Head(grouped).entries,
                    size, code, classrooms),
         Tail(grouped), size, code, classrooms)

\* the loop over Object.entries(building.sizes ?? {})
RECURSIVE AttachSizes(_, _, _, _)
AttachSizes(roomsMap, sizeEntries, code, classrooms) ==
  IF sizeEntries = <<>> THEN roomsMap
  ELSE AttachSizes(
         AttachRooms(roomsMap, GroupByRoom(Head(sizeEntries).value, <<>>),
                     Head(sizeEntries).key, code, classrooms),
         Tail(sizeEntries), code, classrooms)

\* one iteration of the loop over stars.buildings
\* buildingMap.get(building.id), created when it is not there yet
WithBuilding(buildingMap, building) ==
  IF \E i \in 1..Len(buildingMap) : buildingMap[i].id = building.id
  THEN buildingMap
  ELSE Append(buildingMap,
              [id |-> building.id,
               code |-> IF Truthy(building.code) THEN toUpperCase(building.code) ELSE NULL,
               name |-> building.name,
               campusId |-> building.campusId,
               lat |-> building.lat,
               lng |-> building.lng,
               roomsMap |-> <<>>])

\* the loop over the sizes of `building`, on the record of its id
AttachBuildingSizes(buildingMap, building, classrooms) ==
  [i \in 1..Len(buildingMap) |->
     IF buildingMap[i].id = building.id
     THEN [buildingMap[i] EXCEPT !.roomsMap =
             AttachSizes(@, IF "sizes" \in DOMAIN building THEN building.sizes ELSE <<>>,
                         buildingMap[i].code, classrooms)]
     ELSE buildingMap[i]]

AddBuilding(buildingMap, building, classrooms) ==
  AttachBuildingSizes(WithBuilding(buildingMap, building), building, classrooms)

RECURSIVE AddBuildings(_, _, _)
AddBuildings(buildingMap, buildings, classrooms) ==
  IF buildings = <<>> THEN buildingMap
  ELSE AddBuildings(AddBuilding(buildingMap, Head(buildings), classrooms),
                    Tail(buildings), classrooms)

\* Array.from(buildingMap.values()).map(...): each building with its rooms sorted
BuildingsOf(buildingMap) ==
  [i \in 1..Len(buildingMap) |->
     [id |-> buildingMap[i].id,
      code |-> buildingMap[i].code,
      name |-> buildingMap[i].name,
      campusId |-> buildingMap[i].campusId,
      lat |-> buildingMap[i].lat,
      lng |-> buildingMap[i].lng,
      rooms |-> StableSort("rooms", buildingMap[i].roomsMap)]]

\* the member accesses of the builder that raise a TypeError on null/undefined:
\* room.buildingCode.toUpperCase(), room.roomNumber.toUpperCase(),
\* entry.ROOM.padStart, entry.DAY.toUpperCase(), entry.PERIOD.toUpperCase()
BuildThrows(stars, classrooms) ==
  \/ /\ classrooms # NULL_OBJECT
     /\ "rooms" \in DOMAIN classrooms
     /\ \E i \in 1..Len(classrooms.rooms) :
          classrooms.rooms[i].buildingCode = NULL \/ classrooms.rooms[i].roomNumber = NULL
  \/ \E b \in 1..Len(stars.buildings) :
       /\ "sizes" \in DOMAIN stars.buildings[b]
       /\ \E s \in 1..Len(stars.buildings[b].sizes) :
            \E e \in 1..Len(stars.buildings[b].sizes[s].value) :
              LET entry == stars.buildings[b].sizes[s].value[e]
              IN  entry.ROOM = NULL \/ entry.DAY = NULL \/ entry.PERIOD = NULL

\* a builder that fills classroomMap before it looks at the schedule snapshot
buildAvailabilityDatasetMapFirst(stars, classrooms) ==
  IF /\ classrooms # NULL_OBJECT
     /\ "rooms" \in DOMAIN classrooms
     /\ \E i \in 1..Len(classrooms.rooms) :
          classrooms.rooms[i].buildingCode = NULL \/ classrooms.rooms[i].roomNumber = NULL
  THEN TYPE_ERROR
  ELSE IF stars = NULL_OBJECT
  THEN [fetchedAt |-> NOW, term |-> <<>>, classSizes |-> <<>>, buildings |-> <<>>]
  ELSE IF BuildThrows(stars, classrooms) THEN TYPE_ERROR
  ELSE [fetchedAt |-> stars.fetchedAt,
        term |-> stars.term,
        classSizes |-> IF "classSizes" \in DOMAIN stars THEN stars.classSizes ELSE <<>>,
        buildings |-> StableSort("buildings",
                        BuildingsOf(AddBuildings(<<>>, stars.buildings, classrooms)))]

buildAvailabilityDataset(stars, classrooms) ==
  IF stars = NULL_OBJECT
  THEN [fetchedAt |-> NOW, term |-> <<>>, classSizes |-> <<>>, buildings |-> <<>>]
  ELSE IF BuildThrows(stars, classrooms) THEN TYPE_ERROR
  ELSE [fetchedAt |-> stars.fetchedAt,
        term |-> stars.term,
        classSizes |-> IF "classSizes" \in DOMAIN stars THEN stars.classSizes ELSE <<>>,
        buildings |-> StableSort("buildings",
                        BuildingsOf(AddBuildings(<<>>, stars.buildings, classrooms)))]

(***************************************************************************)
(* Re-shaping of a persisted dataset.  A persisted size record that is a   *)
(* bare array is [array |-> items]; a field a record lacks is undefined.   *)
(***************************************************************************)
Field(raw, f) == IF f \in DOMAIN raw THEN raw[f] ELSE NULL

\* a ?? b
Coalesce(a, b) == IF a # NULL THEN a ELSE b

\* a mapping that reads only the upper-case keys of a raw entry
mapToPeriodEntryRawKeys(raw) ==
  [day |-> toUpperCase(Coalesce(Field(raw, "DAY"), <<>>)),
   period |-> toUpperCase(Coalesce(Field(raw, "PERIOD"), <<>>)),
   startTime |-> formatTime12(DefinitionOrPlaceholder(
                   toUpperCase(Coalesce(Field(raw, "PERIOD"), <<>>))).start),
   endTime |-> formatTime12(DefinitionOrPlaceholder(
                 toUpperCase(Coalesce(Field(raw, "PERIOD"), <<>>))).end),
   startMinutes |-> toMinutes(DefinitionOrPlaceholder(
                      toUpperCase(Coalesce(Field(raw, "PERIOD"), <<>>))).start),
   endMinutes |-> toMinutes(DefinitionOrPlaceholder(
                    toUpperCase(Coalesce(Field(raw, "PERIOD"), <<>>))).end)]

mapToPeriodEntry(raw) ==
  LET day == toUpperCase(Coalesce(Field(raw, "day"), Coalesce(Field(raw, "DAY"), <<>>)))
      period == toUpperCase(Coalesce(Field(raw, "period"), Coalesce(Field(raw, "PERIOD"), <<>>)))
      definition == DefinitionOrPlaceholder(period)
      startMinutes == IF "startMinutes" \in DOMAIN raw
                      THEN raw.startMinutes ELSE toMinutes(definition.start)
      endMinutes == IF "endMinutes" \in DOMAIN raw
                    THEN raw.endMinutes ELSE toMinutes(definition.end)
  IN  [day |-> day,
       period |-> period,
       startTime |-> Coalesce(Field(raw, "startTime"), formatTime12(definition.start)),
       endTime |-> Coalesce(Field(raw, "endTime"), formatTime12(definition.end)),
       startMinutes |-> startMinutes,
       endMinutes |-> endMinutes]

\* a value of another type than string in a field read as a string
NOT_A_STRING == <<"not a string">>

\* (raw?.day ?? raw?.DAY ?? "").toUpperCase() and its twin for the period raise
\* a TypeError when the value they reach is not a string
MapThrows(raw) ==
  \/ Coalesce(Field(raw, "day"), Coalesce(Field(raw, "DAY"), <<>>)) = NOT_A_STRING
  \/ Coalesce(Field(raw, "period"), Coalesce(Field(raw, "PERIOD"), <<>>)) = NOT_A_STRING

\* a re-shaping that takes a bare array for a value that is no record
NormalizeRecordOfObjects(record) ==
  IF "periods" \in DOMAIN record
  THEN [periods |-> [i \in 1..Len(record.periods) |-> mapToPeriodEntry(record.periods[i])]]
  ELSE [periods |-> <<>>]

\* the three branches of the forEach body of normalizeAvailabilityDataset
NormalizeRecord(record) ==
  IF "array" \in DOMAIN record
  THEN [periods |-> [i \in 1..Len(record.array) |-> mapToPeriodEntry(record.array[i])]]
  ELSE IF "periods" \in DOMAIN record
  THEN [periods |-> [i \in 1..Len(record.periods) |-> mapToPeriodEntry(record.periods[i])]]
  ELSE [periods |-> <<>>]

RECURSIVE NormalizeAvailability(_, _)
NormalizeAvailability(entries, normalized) ==
  IF entries = <<>> THEN normalized
  ELSE NormalizeAvailability(Tail(entries),
         ObjSet(normalized, Head(entries).key, NormalizeRecord(Head(entries).value)))

\* some record.map(mapToPeriodEntry) of the re-shaping raises
NormalizeThrows(dataset) ==
  \E b \in 1..Len(dataset.buildings) :
    \E r \in 1..Len(dataset.buildings[b].rooms) :
      \E i \in 1..Len(dataset.buildings[b].rooms[r].availability) :
        LET record == dataset.buildings[b].rooms[r].availability[i].value
        IN  \/ /\ "array" \in DOMAIN record
               /\ \E j \in 1..Len(record.array) : MapThrows(record.array[j])
            \/ /\ "array" \notin DOMAIN record
               /\ "periods" \in DOMAIN record
               /\ \E j \in 1..Len(record.periods) : MapThrows(record.periods[j])

normalizeAvailabilityDataset(dataset) ==
  IF NormalizeThrows(dataset) THEN TYPE_ERROR
  ELSE [dataset EXCEPT !.buildings =
          [b \in 1..Len(dataset.buildings) |->
             [dataset.buildings[b] EXCEPT !.rooms =
                [r \in 1..Len(dataset.buildings[b].rooms) |->
                   [dataset.buildings[b].rooms[r] EXCEPT !.availability =
                      NormalizeAvailability(@, <<>>)]]]]]

(***************************************************************************)
(* Realtime status engine.                                                 *)
(***************************************************************************)
\* lower.startsWith(prefix)
StartsWith(str, prefix) ==
  Len(str) >= Len(prefix) /\ SubSeq(str, 1, Len(prefix)) = prefix

toLowerChar(c) ==
  IF IndexIn(UpperLetters, c) > 0 THEN LowerLetters[IndexIn(UpperLetters, c)] ELSE c

toLowerCase(str) == [i \in 1..Len(str) |-> toLowerChar(str[i])]

weekdayToDayCode(weekday) ==
  LET lower == toLowerCase(weekday)
  IN  IF StartsWith(lower, <<"m", "o", "n">>) THEN <<"M">>
      ELSE IF StartsWith(lower, <<"t", "u", "e">>) THEN <<"T">>
      ELSE IF StartsWith(lower, <<"w", "e", "d">>) THEN <<"W">>
      ELSE IF StartsWith(lower, <<"t", "h", "u">>) THEN <<"T", "H">>
      ELSE IF StartsWith(lower, <<"f", "r", "i">>) THEN <<"F">>
      ELSE IF StartsWith(lower, <<"s", "a", "t">>) THEN <<"S">>
      ELSE IF StartsWith(lower, <<"s", "u", "n">>) THEN <<"S", "U">>
      ELSE NULL

\* getCurrentEasternContext for the parts the formatter produced: the weekday,
\* hour and minute strings, each undefined (NULL) when the part is missing
getCurrentEasternContext(weekday, hour, minute) ==
  IF ~Truthy(weekday) \/ ~Truthy(hour) \/ ~Truthy(minute) THEN NULL_OBJECT
  ELSE IF weekdayToDayCode(weekday) = NULL THEN NULL_OBJECT
  ELSE [dayCode |-> weekdayToDayCode(weekday),
        minutes |-> ParseNat(hour) * 60 + ParseNat(minute)]

\* a scan that counts the end minute of a period as inside it
RECURSIVE ScanAvailableNowEndInclusive(_, _)
ScanAvailableNowEndInclusive(periods, context) ==
  IF periods = <<>> THEN FALSE
  ELSE IF /\ Head(periods).day = context.dayCode
          /\ Head(periods).startMinutes <= context.minutes
          /\ context.minutes <= Head(periods).endMinutes
       THEN TRUE
       ELSE ScanAvailableNowEndInclusive(Tail(periods), context)

\* the first loop of computeStatus: scan in order, stop at the first hit
RECURSIVE ScanAvailableNow(_, _)
ScanAvailableNow(periods, context) ==
  IF periods = <<>> THEN FALSE
  ELSE IF /\ Head(periods).day = context.dayCode
          /\ Head(periods).startMinutes <= context.minutes
          /\ context.minutes < Head(periods).endMinutes
       THEN TRUE
       ELSE ScanAvailableNow(Tail(periods), context)

\* periods.filter(predicate on day)
RECURSIVE FilterByDay(_, _)
FilterByDay(periods, day) ==
  IF periods = <<>> THEN <<>>
  ELSE IF Head(periods).day = day
       THEN <<Head(periods)>> \o FilterByDay(Tail(periods), day)
       ELSE FilterByDay(Tail(periods), day)

\* a find that also takes a period starting at the current minute
RECURSIVE FindUpcomingOrStarting(_, _)
FindUpcomingOrStarting(dayPeriods, minutes) ==
  IF dayPeriods = <<>> THEN NULL_OBJECT
  ELSE IF Head(dayPeriods).startMinutes >= minutes THEN Head(dayPeriods)
       ELSE FindUpcomingOrStarting(Tail(dayPeriods), minutes)

\* dayPeriods.find(period => period.startMinutes > minutes), NULL_OBJECT for undefined
RECURSIVE FindUpcoming(_, _)
FindUpcoming(dayPeriods, minutes) ==
  IF dayPeriods = <<>> THEN NULL_OBJECT
  ELSE IF Head(dayPeriods).startMinutes > minutes THEN Head(dayPeriods)
       ELSE FindUpcoming(Tail(dayPeriods), minutes)

\* the second loop of computeStatus, from `offset` on; startIndex is 0-based
RECURSIVE WalkWeek(_, _, _, _)
WalkWeek(periods, context, startIndex, offset) ==
  IF offset >= Len(DAY_SEQUENCE) THEN NULL_OBJECT
  ELSE LET Step(dayPeriods, upcoming) ==
             IF offset = 0
             THEN IF upcoming # NULL_OBJECT
                  THEN upcoming
                  ELSE WalkWeek(periods, context, startIndex, offset + 1)
             ELSE IF Len(dayPeriods) > 0
                  THEN dayPeriods[1]
                  ELSE WalkWeek(periods, context, startIndex, offset + 1)
           Day(day) == Step(FilterByDay(periods, day),
                            FindUpcoming(FilterByDay(periods, day), context.minutes))
       IN  Day(DAY_SEQUENCE[((startIndex + offset) % Len(DAY_SEQUENCE)) + 1])

\* the projection of the period found onto NextAvailability
NextAvailabilityOf(next) ==
  IF next # NULL_OBJECT
  THEN [day |-> next.day,
        dayLabel |-> DAY_LABELS(next.day),
        period |-> next.period,
        startTime |-> next.startTime,
        endTime |-> next.endTime]
  ELSE NULL_OBJECT

\* a status that reports a room without periods as available
computeStatusOpenWhenEmpty(periods, context) ==
  IF Len(periods) = 0
  THEN [isAvailableNow |-> TRUE, nextAvailable |-> NULL_OBJECT]
  ELSE [isAvailableNow |-> ScanAvailableNow(periods, context),
        nextAvailable |->
          NextAvailabilityOf(
            WalkWeek(periods, context, IndexIn(DAY_SEQUENCE, context.dayCode) - 1, 0))]

computeStatus(periods, context) ==
  IF Len(periods) = 0
  THEN [isAvailableNow |-> FALSE, nextAvailable |-> NULL_OBJECT]
  ELSE [isAvailableNow |-> ScanAvailableNow(periods, context),
        nextAvailable |->
          NextAvailabilityOf(
            WalkWeek(periods, context, IndexIn(DAY_SEQUENCE, context.dayCode) - 1, 0))]

\* PERIOD_START_TIMES: period code -> 12-hour start time
PERIOD_START_TIMES ==
  [i \in 1..Len(PERIOD_DEFINITIONS) |->
     [key |-> PERIOD_DEFINITIONS[i].code, value |-> formatTime12(PERIOD_DEFINITIONS[i].start)]]

(***************************************************************************)
(* The object heap of the server process.  The objects the request         *)
(* handlers assign to or delete from are a room's availability map and the *)
(* SizeAvailability records in it; they live in the heap and are referred  *)
(* to by address.  An address is <<owner, building, room, slot>>: slot 0   *)
(* is the availability map of the room, slot i > 0 a size record.          *)
(* Buildings, rooms and period entries are never written after their       *)
(* construction and are kept by value.                                     *)
(***************************************************************************)
AvailAddr(owner, b, r) == <<owner, b, r, 0>>

RecordAddr(owner, b, r, i) == <<owner, b, r, i>>

\* the dataset with each room's availability map replaced by its address
TreeOf(dataset, owner) ==
  [dataset EXCEPT !.buildings =
     [b \in 1..Len(dataset.buildings) |->
        [dataset.buildings[b] EXCEPT !.rooms =
           [r \in 1..Len(dataset.buildings[b].rooms) |->
              [dataset.buildings[b].rooms[r] EXCEPT !.availability = AvailAddr(owner, b, r)]]]]]

\* the heap objects of a dataset
HeapOf(dataset, owner) ==
  LET avail(b, r) == dataset.buildings[b].rooms[r].availability
      addrs == UNION {
                 UNION {
                   {AvailAddr(owner, b, r)} \cup
                   {RecordAddr(owner, b, r, i) : i \in 1..Len(avail(b, r))}
                   : r \in 1..Len(dataset.buildings[b].rooms)}
                 : b \in 1..Len(dataset.buildings)}
  IN  [a \in addrs |->
         IF a[4] = 0
         THEN [i \in 1..Len(avail(a[2], a[3])) |->
                 [key |-> avail(a[2], a[3])[i].key, value |-> RecordAddr(owner, a[2], a[3], i)]]
         ELSE avail(a[2], a[3])[a[4]].value]

\* the dataset a tree denotes in heap h (what JSON.stringify sees)
Deref(tree, h) ==
  [tree EXCEPT !.buildings =
     [b \in 1..Len(tree.buildings) |->
        [tree.buildings[b] EXCEPT !.rooms =
           [r \in 1..Len(tree.buildings[b].rooms) |->
              [tree.buildings[b].rooms[r] EXCEPT !.availability =
                 [i \in 1..Len(h[@]) |-> [key |-> h[@][i].key, value |-> h[h[@][i].value]]]]]]]]

\* the addresses of the availability maps of a tree, in traversal order
RECURSIVE AvailAddrsOf(_)
AvailAddrsOf(buildings) ==
  IF buildings = <<>> THEN <<>>
  ELSE [r \in 1..Len(Head(buildings).rooms) |-> Head(buildings).rooms[r].availability]
         \o AvailAddrsOf(Tail(buildings))

\* the objects reachable from a tree: what survives once a response is sent
ReachableFrom(maps, h) ==
  {maps[i] : i \in 1..Len(maps)}
    \cup UNION {{h[maps[i]][j].value : j \in 1..Len(h[maps[i]])} : i \in 1..Len(maps)}

Reachable(tree, h) == ReachableFrom(AvailAddrsOf(tree.buildings), h)

Collect(tree, h) == [a \in Reachable(tree, h) |-> h[a]]

RECURSIVE SortedSeqOf(_)
SortedSeqOf(S) ==
  IF S = {} THEN <<>>
  ELSE LET m == CHOOSE x \in S : \A y \in S : x <= y
       IN  <<m>> \o SortedSeqOf(S \ {m})

(***************************************************************************)
(* applyRealtimeStatus: writes a new record into every slot of every       *)
(* availability map of the dataset it is given.                            *)
(***************************************************************************)
StatusOwner(owner) == IF owner = "dataset" THEN "dataset-status" ELSE
                      IF owner = "request" THEN "request-status" ELSE owner

\* an annotation that keeps only the periods of the current day in each record
AnnotateMapForToday(h, a, context) ==
  LET entries == h[a]
      fresh(i) == RecordAddr(StatusOwner(a[1]), a[2], a[3], i)
      annotated(i) ==
        LET record == h[entries[i].value]
            status == computeStatus(record.periods, context)
        IN  [periods |-> FilterByDay(record.periods, context.dayCode),
             isAvailableNow |-> status.isAvailableNow,
             nextAvailable |-> status.nextAvailable]
      written == [n \in {fresh(i) : i \in 1..Len(entries)} |->
                    annotated(CHOOSE i \in 1..Len(entries) : fresh(i) = n)]
      map == [i \in 1..Len(entries) |-> [key |-> entries[i].key, value |-> fresh(i)]]
  IN  (a :> map) @@ written @@ h

\* the body of the innermost forEach, for the availability map at address a
AnnotateMap(h, a, context) ==
  LET entries == h[a]
      fresh(i) == RecordAddr(StatusOwner(a[1]), a[2], a[3], i)
      annotated(i) ==
        LET record == h[entries[i].value]
            status == computeStatus(record.periods, context)
        IN  [periods |-> record.periods,
             isAvailableNow |-> status.isAvailableNow,
             nextAvailable |-> status.nextAvailable]
      written == [n \in {fresh(i) : i \in 1..Len(entries)} |->
                    annotated(CHOOSE i \in 1..Len(entries) : fresh(i) = n)]
      map == [i \in 1..Len(entries) |-> [key |-> entries[i].key, value |-> fresh(i)]]
  IN  (a :> map) @@ written @@ h

RECURSIVE AnnotateMaps(_, _, _)
AnnotateMaps(h, addrs, context) ==
  IF addrs = <<>> THEN h
  ELSE AnnotateMaps(AnnotateMap(h, Head(addrs), context), Tail(addrs), context)

\* a status pass that falls back to Monday midnight when there is no context
applyRealtimeStatusWithDefault(h, dataset, context) ==
  AnnotateMaps(h, AvailAddrsOf(dataset.buildings),
               IF context = NULL_OBJECT THEN [dayCode |-> <<"M">>, minutes |-> 0] ELSE context)

\* the heap after applyRealtimeStatus(dataset); the dataset reference is returned as is
applyRealtimeStatus(h, dataset, context) ==
  IF context = NULL_OBJECT THEN h
  ELSE AnnotateMaps(h, AvailAddrsOf(dataset.buildings), context)

(***************************************************************************)
(* filterAvailability.  The filters are strings or NULL; the result is a   *)
(* new dataset whose rooms own new availability maps and records.          *)
(***************************************************************************)
SizeFilterOf(filters) == IF filters.size # NULL THEN toUpperCase(filters.size) ELSE NULL

BuildingCodeFilterOf(filters) ==
  IF Truthy(filters.buildingCode) THEN toUpperCase(filters.buildingCode) ELSE NULL

RoomFilterOf(filters) ==
  IF Truthy(filters.roomNumber) THEN toUpperCase(filters.roomNumber) ELSE NULL

\* the predicate of dataset.buildings.filter
KeepBuilding(building, filters) ==
  /\ ~(Truthy(filters.buildingId) /\ building.id # filters.buildingId)
  /\ ~(/\ Truthy(BuildingCodeFilterOf(filters))
       /\ (building.code = NULL \/ toUpperCase(building.code) # BuildingCodeFilterOf(filters)))

\* the room-number test of building.rooms
KeepRoom(room, filters) ==
  ~(Truthy(RoomFilterOf(filters)) /\ toUpperCase(room.number) # RoomFilterOf(filters))

\* periods.map((entry) => ({ ...entry }))
CopyPeriods(periods) == [i \in 1..Len(periods) |-> periods[i]]

\* the availability object built for one room (backend/server.ts)
SelectAvailability(h, room, filters) ==
  LET source == h[room.availability]
      sizeFilter == SizeFilterOf(filters)
  IN  IF Truthy(sizeFilter)
      THEN IF ObjHas(source, sizeFilter) /\ Len(h[ObjGet(source, sizeFilter)].periods) > 0
           THEN <<[key |-> sizeFilter,
                   value |-> [periods |-> CopyPeriods(h[ObjGet(source, sizeFilter)].periods)]]>>
           ELSE <<>>
      ELSE [i \in 1..Len(source) |->
              [key |-> source[i].key,
               value |-> [periods |-> CopyPeriods(h[source[i].value].periods)]]]

\* the test of the second rooms filter: some period is left (backend/server.ts)
HasPeriods(availability) ==
  \E i \in 1..Len(availability) : Len(availability[i].value.periods) > 0

\* the room object a filter returns: its availability is the new map
FilteredRoomShared(room, b, r) == room

FilteredRoom(room, b, r) ==
  [number |-> room.number, metadata |-> room.metadata,
   availability |-> AvailAddr("request", b, r)]

\* the objects a filter allocates: for each room it returns, the availability
\* map and the records in it
RequestObjects(built, pairs) ==
  [a \in UNION {{AvailAddr("request", p[1], p[2])} \cup
                {RecordAddr("request", p[1], p[2], i) : i \in 1..Len(built[p[1]][p[2]])}
                 : p \in pairs} |->
     IF a[4] = 0
     THEN [i \in 1..Len(built[a[2]][a[3]]) |->
             [key |-> built[a[2]][a[3]][i].key,
              value |-> RecordAddr("request", a[2], a[3], i)]]
     ELSE built[a[2]][a[3]][a[4]].value]

\* the dataset a filter returns and the heap that holds its objects, given
\* the rooms that passed (roomsOf[b]) of the buildings that passed (buildingsKept)
AssembleKept(h, dataset, built, roomsOf, buildingsKept) ==
  [heap |-> RequestObjects(built, UNION {{<<b, roomsOf[b][j]>> : j \in 1..Len(roomsOf[b])}
                                          : b \in {buildingsKept[k] : k \in 1..Len(buildingsKept)}})
              @@ h,
   dataset |->
     [fetchedAt |-> dataset.fetchedAt,
      term |-> dataset.term,
      classSizes |-> dataset.classSizes,
      buildings |->
        [k \in 1..Len(buildingsKept) |->
           [id |-> dataset.buildings[buildingsKept[k]].id,
            code |-> dataset.buildings[buildingsKept[k]].code,
            name |-> dataset.buildings[buildingsKept[k]].name,
            campusId |-> dataset.buildings[buildingsKept[k]].campusId,
            lat |-> dataset.buildings[buildingsKept[k]].lat,
            lng |-> dataset.buildings[buildingsKept[k]].lng,
            rooms |-> [j \in 1..Len(roomsOf[buildingsKept[k]]) |->
                         FilteredRoom(dataset.buildings[buildingsKept[k]]
                                        .rooms[roomsOf[buildingsKept[k]][j]],
                                      buildingsKept[k], roomsOf[buildingsKept[k]][j])]]]]]

\* the last filter of the chain: the buildings that have a room left
AssembleRooms(h, dataset, built, roomsOf) ==
  AssembleKept(h, dataset, built, roomsOf,
               SortedSeqOf({b \in 1..Len(dataset.buildings) : Len(roomsOf[b]) > 0}))

\* the result of a filter, given the availability it built for each room
\* (built[b][r], a sequence of [key, value] pairs) and whether the last rooms
\* filter keeps it (kept[b][r])
AssembleFiltered(h, dataset, filters, built, kept) ==
  AssembleRooms(h, dataset, built,
    [b \in 1..Len(dataset.buildings) |->
       IF KeepBuilding(dataset.buildings[b], filters)
       THEN SortedSeqOf({r \in 1..Len(dataset.buildings[b].rooms) :
                           /\ KeepRoom(dataset.buildings[b].rooms[r], filters)
                           /\ kept[b][r]})
       ELSE <<>>])

\* filterAvailability of backend/server.ts
filterAvailability(h, dataset, filters) ==
  AssembleFiltered(h, dataset, filters,
    [b \in 1..Len(dataset.buildings) |->
       [r \in 1..Len(dataset.buildings[b].rooms) |->
          SelectAvailability(h, dataset.buildings[b].rooms[r], filters)]],
    [b \in 1..Len(dataset.buildings) |->
       [r \in 1..Len(dataset.buildings[b].rooms) |->
          HasPeriods(SelectAvailability(h, dataset.buildings[b].rooms[r], filters))]])

(***************************************************************************)
(* The later revision of the server: a periods filter, and period lists    *)
(* stripped from the unfiltered responses.  periodFilters is NULL_OBJECT   *)
(* or [set |-> the period codes].                                          *)
(***************************************************************************)
\* cloneAvailabilityRecord; `record` is NULL_OBJECT for undefined
cloneAvailabilityRecord(record, periodFilters) ==
  IF record = NULL_OBJECT THEN NULL_OBJECT
  ELSE LET srcPeriods == IF "periods" \in DOMAIN record THEN record.periods ELSE <<>>
           periods == IF periodFilters # NULL_OBJECT
                      THEN SelectSeq(srcPeriods, LAMBDA entry : entry.period \in periodFilters.set)
                      ELSE srcPeriods
           status == [f \in DOMAIN record \cap {"isAvailableNow", "nextAvailable"} |-> record[f]]
       IN  IF periodFilters # NULL_OBJECT /\ Len(periods) = 0 THEN NULL_OBJECT
           ELSE [periods |-> CopyPeriods(periods)] @@ status

\* the availability object built for one room (later revision)
CloneAvailability(h, room, filters, periodFilters) ==
  LET source == h[room.availability]
      sizeFilter == SizeFilterOf(filters)
      sizeEntries ==
        IF Truthy(sizeFilter)
        THEN <<[key |-> sizeFilter,
                value |-> IF ObjHas(source, sizeFilter)
                          THEN h[ObjGet(source, sizeFilter)] ELSE NULL_OBJECT]>>
        ELSE [i \in 1..Len(source) |-> [key |-> source[i].key, value |-> h[source[i].value]]]
      cloned == [i \in 1..Len(sizeEntries) |->
                   [key |-> sizeEntries[i].key,
                    value |-> cloneAvailabilityRecord(sizeEntries[i].value, periodFilters)]]
  IN  SelectSeq(cloned, LAMBDA e : e.value # NULL_OBJECT)

\* the test of the second rooms filter (later revision): some size is left
HasSizes(availability) == Len(availability) > 0

filterAvailabilityWithPeriods(h, dataset, filters, periodFilters) ==
  AssembleFiltered(h, dataset, filters,
    [b \in 1..Len(dataset.buildings) |->
       [r \in 1..Len(dataset.buildings[b].rooms) |->
          CloneAvailability(h, dataset.buildings[b].rooms[r], filters, periodFilters)]],
    [b \in 1..Len(dataset.buildings) |->
       [r \in 1..Len(dataset.buildings[b].rooms) |->
          HasSizes(CloneAvailability(h, dataset.buildings[b].rooms[r], filters, periodFilters))]])

\* stripPeriods: delete record.periods on every record of the dataset
RECURSIVE StripMaps(_, _)
StripMaps(h, addrs) ==
  IF addrs = <<>> THEN h
  ELSE LET records == {h[Head(addrs)][i].value : i \in 1..Len(h[Head(addrs)])}
           stripped == [n \in records |-> [f \in DOMAIN h[n] \ {"periods"} |-> h[n][f]]]
       IN  StripMaps(stripped @@ h, Tail(addrs))

stripPeriods(h, dataset) == StripMaps(h, AvailAddrsOf(dataset.buildings))

(***************************************************************************)
(* GET /api/rooms/:id: the identifier pattern                              *)
(* /^([A-Z]{2,4})[-_]?([0-9A-Z]{1,4})$/ on the upper-cased id.             *)
(***************************************************************************)
IsUpperLetter(c) == IndexIn(UpperLetters, c) > 0

IsUpperAlnum(c) == IsUpperLetter(c) \/ IsDigit(c)

\* whether the id matches with a building group of n letters
MatchesWith(id, n) ==
  /\ Len(id) > n
  /\ \A i \in 1..n : IsUpperLetter(id[i])
  /\ LET sep == IF id[n + 1] \in {"-", "_"} THEN 1 ELSE 0
         rest == SubSeq(id, n + 1 + sep, Len(id))
     IN  /\ Len(rest) \in 1..4
         /\ \A i \in 1..Len(rest) : IsUpperAlnum(rest[i])

\* the match: NULL_OBJECT, or the two groups of the longest building group that matches
MatchRoomId(id) ==
  IF \A n \in 2..4 : ~MatchesWith(id, n) THEN NULL_OBJECT
  ELSE LET n == CHOOSE m \in 2..4 : MatchesWith(id, m) /\ \A k \in 2..4 : MatchesWith(id, k) => k <= m
           sep == IF id[n + 1] \in {"-", "_"} THEN 1 ELSE 0
       IN  [buildingCode |-> SubSeq(id, 1, n),
            roomNumberRaw |-> SubSeq(id, n + 1 + sep, Len(id))]

(***************************************************************************)
(* parsePeriodFilters(req.query.periods) for a string value or undefined.  *)
(***************************************************************************)
RECURSIVE SplitComma(_)
SplitComma(str) ==
  IF \A i \in 1..Len(str) : str[i] # ","
  THEN <<str>>
  ELSE LET c == CHOOSE i \in 1..Len(str) : str[i] = "," /\ \A j \in 1..(i - 1) : str[j] # ","
       IN  <<SubSeq(str, 1, c - 1)>> \o SplitComma(SubSeq(str, c + 1, Len(str)))

RECURSIVE Trim(_)
Trim(str) ==
  IF str # <<>> /\ str[1] = " " THEN Trim(Tail(str))
  ELSE IF str # <<>> /\ str[Len(str)] = " " THEN Trim(SubSeq(str, 1, Len(str) - 1))
  ELSE str

\* a parser that keeps the case of the items
parsePeriodFiltersAsWritten(value) ==
  IF ~Truthy(value) THEN NULL_OBJECT
  ELSE LET raw == SplitComma(value)
           normalized == SelectSeq([i \in 1..Len(raw) |-> Trim(raw[i])],
                                   LAMBDA item : item # <<>>)
       IN  IF Len(normalized) > 0
           THEN [set |-> {normalized[i] : i \in 1..Len(normalized)}]
           ELSE NULL_OBJECT

parsePeriodFilters(value) ==
  IF ~Truthy(value) THEN NULL_OBJECT
  ELSE LET raw == SplitComma(value)
           normalized == SelectSeq([i \in 1..Len(raw) |-> toUpperCase(Trim(raw[i]))],
                                   LAMBDA item : item # <<>>)
       IN  IF Len(normalized) > 0
           THEN [set |-> {normalized[i] : i \in 1..Len(normalized)}]
           ELSE NULL_OBJECT

(***************************************************************************)
(* State.                                                                  *)
(***************************************************************************)
VARIABLES
  stars,                 \* data/stars-open-rooms.json as parsed (RawStarsData)
  classrooms,            \* data/classrooms.json as parsed, NULL_OBJECT when unreadable
  dataset,               \* what the loader passed to normalizeAvailabilityDataset
  origin,                \* where it came from: "none" yet, "files" or "store"
  storeReply,            \* what the snapshot store answered the loader
  AVAILABILITY_DATASET,  \* the dataset the server holds (rooms refer to heap maps)
  heap,                  \* the availability maps and size records of the process
  pc,                    \* "input", "serving", "responded" or "crashed"
  request,               \* the request being answered, NULL_OBJECT when none
  context,               \* the time context of that request, NULL_OBJECT when none
  response,              \* the response sent, NULL_OBJECT when none
  children,              \* launcher: the services started, in the order of the pushes
  shuttingDown,          \* launcher: the flag of shutdown
  timers,                \* launcher: the exit codes of the timers shutdown has set
  exitEvents,            \* launcher: the "exit" events of children not yet handled
  calls,                 \* launcher: the calls of shutdown so far, with their cause
  launcherPc,            \* launcher: "main", "running" or "exited"
  exitCode,              \* launcher: the code of process.exit, NO_CODE before it
  selectedPeriods,       \* App: the state `periods`
  effects,               \* App: the runs of the loading effect, each with its isMounted
  displayedData,         \* App: the state `data`
  displayedError,        \* App: the state `error`
  isLoading              \* App: the state `isLoading`

serverVars == <<stars, classrooms, dataset, origin, storeReply, AVAILABILITY_DATASET, heap, pc,
                request, context, response>>

launcherVars == <<children, shuttingDown, timers, exitEvents, calls, launcherPc, exitCode>>

appVars == <<selectedPeriods, effects, displayedData, displayedError, isLoading>>

vars == <<serverVars, launcherVars, appVars>>

\* `code` of an "exit" event that has none (the child was ended by a signal)
NO_CODE == -1

\* the launcher before main() runs
LauncherNotStarted ==
  /\ children = <<>>
  /\ shuttingDown = FALSE
  /\ timers = <<>>
  /\ exitEvents = {}
  /\ calls = <<>>
  /\ launcherPc = "main"
  /\ exitCode = NO_CODE

DEFAULT_STATE == [fetchedAt |-> <<>>, term |-> <<>>, classSizes |-> <<>>, buildings |-> <<>>]

\* App before its first render is committed
AppNotMounted ==
  /\ selectedPeriods = <<>>
  /\ effects = <<>>
  /\ displayedData = DEFAULT_STATE
  /\ displayedError = NULL
  /\ isLoading = FALSE

\* bounds of the model
MaxEntries == 3

MaxServerEntries == 2

RawEntry(room, day, period) == [ROOM |-> room, DAY |-> day, PERIOD |-> period]

Room13 == <<"1", "3">>

\* raw entries of the loader model: case and padding variants, periods out of
\* order, codes outside the table, day codes outside the week, a missing field
BuildEntries ==
  { RawEntry(Room13, <<"m">>, <<"2">>),
    RawEntry(<<"0", "0", "1", "3">>, <<"M">>, <<"2">>),
    RawEntry(<<"7">>, <<"M">>, <<"2">>),
    RawEntry(Room13, <<"M">>, <<"9">>),
    RawEntry(Room13, <<"M">>, <<"1", "0">>),
    RawEntry(Room13, <<"M">>, <<"Z", "Z">>),
    RawEntry(Room13, <<"M">>, <<"a", "b">>),
    RawEntry(Room13, <<"t", "h">>, <<"e", "1">>),
    RawEntry(Room13, <<"T">>, <<"2">>),
    RawEntry(Room13, <<"X">>, <<"2">>),
    RawEntry(Room13, <<"Y">>, <<"2">>),
    RawEntry(NULL, <<"M">>, <<"2">>) }

\* raw entries of the server model
ServerEntries ==
  { RawEntry(Room13, <<"M">>, <<"2">>),
    RawEntry(Room13, <<"M">>, <<"9">>),
    RawEntry(Room13, <<"M">>, <<"Z", "Z">>),
    RawEntry(Room13, <<"T", "H">>, <<"2">>),
    RawEntry(<<"7">>, <<"S", "U">>, <<"2">>) }

SizeTen == <<"1", "0">>

CodeAnd == <<"a", "n", "d">>

InitialStars ==
  [fetchedAt |-> <<"t", "0">>,
   term |-> <<"F", "2", "5">>,
   classSizes |-> <<SizeTen>>,
   buildings |->
     <<[id |-> <<"B", "1">>,
        name |-> <<"A", "n", "d">>,
        code |-> CodeAnd,
        campusId |-> NULL,
        lat |-> NULL,
        lng |-> NULL,
        sizes |-> <<[key |-> SizeTen, value |-> <<>>]>>]>>]

SampleClassrooms ==
  [fetchedAt |-> <<"t", "0">>,
   source |-> <<"s">>,
   rooms |->
     <<[buildingCode |-> <<"A", "n", "d">>,
        roomNumber |-> <<"0", "0", "1", "3">>,
        name |-> <<"n">>,
        displayName |-> <<"d">>,
        capacity |-> <<"4", "0">>,
        photo |-> NULL,
        gallery |-> <<>>,
        features |-> <<>>,
        featureFlags |-> <<>>,
        detailUrl |-> <<"u">>]>>]

Entries == stars.buildings[1].sizes[1].value

\* what the formatter reports: weekday, hour and minute (NULL: the part is missing)
ClockWeekdays ==
  { <<"M", "o", "n">>, <<"T", "u", "e">>, <<"W", "e", "d">>, <<"T", "h", "u">>,
    <<"F", "r", "i">>, <<"S", "a", "t">>, <<"S", "u", "n">> }

ClockTimes ==
  { << <<"0", "0">>, <<"0", "0">> >>,
    << <<"0", "8">>, <<"2", "0">> >>,
    << <<"0", "8">>, <<"3", "0">> >>,
    << <<"0", "9">>, <<"1", "9">> >>,
    << <<"0", "9">>, <<"2", "0">> >>,
    << <<"1", "0">>, <<"0", "0">> >>,
    << <<"1", "6">>, <<"4", "0">> >> }

ClockReadings ==
  {<<w, t[1], t[2]>> : w \in ClockWeekdays, t \in ClockTimes}
    \cup {<<NULL, <<"0", "0">>, <<"0", "0">> >>}

\* the clock readings of the requests to the later revision
LaterReadings ==
  { << <<"M", "o", "n">>, <<"0", "8">>, <<"3", "0">> >>,
    << <<"M", "o", "n">>, <<"1", "0">>, <<"0", "0">> >>,
    << <<"S", "a", "t">>, <<"1", "6">>, <<"4", "0">> >>,
    <<NULL, <<"0", "0">>, <<"0", "0">> >> }

Query(size, buildingId, buildingCode, room) ==
  [size |-> size, buildingId |-> buildingId, buildingCode |-> buildingCode, room |-> room]

OpenQueries ==
  { Query(NULL, NULL, NULL, NULL),
    Query(SizeTen, NULL, NULL, NULL),
    Query(<<"2", "5">>, NULL, NULL, NULL),
    Query(NULL, NULL, <<"A", "n", "d">>, <<"0", "0", "1", "3">>),
    Query(NULL, <<"B", "2">>, NULL, NULL) }

PeriodsQueries == { NULL, <<"2">>, <<"9", ",", " ", "z", "z">>, <<",", " ">> }

RoomIds ==
  { <<"a", "n", "d", "-", "1", "3">>,
    <<"A", "N", "D", "_", "0", "0", "0", "7">>,
    <<"m", "a", "t", "1", "3">>,
    <<"a", "-", "1">> }

\* the answer of the store to the loader: no client (supabase is null), a
\* thrown exception, or { data, error } with data.data a dataset or missing
NoStore == [kind |-> "none"]

Init ==
  /\ stars = InitialStars
  /\ classrooms \in {NULL_OBJECT, SampleClassrooms}
  /\ dataset = NULL_OBJECT
  /\ origin = "none"
  /\ storeReply = NoStore
  /\ AVAILABILITY_DATASET = NULL_OBJECT
  /\ heap = <<>>
  /\ pc = "input"
  /\ request = NULL_OBJECT
  /\ context = NULL_OBJECT
  /\ response = NULL_OBJECT
  /\ LauncherNotStarted
  /\ AppNotMounted

\* one more raw entry in the schedule snapshot the server will load
AddEntry(entry, max) ==
  /\ pc = "input"
  /\ stars # NULL_OBJECT
  /\ Len(Entries) < max
  /\ stars' = [stars EXCEPT !.buildings[1].sizes[1].value = Append(@, entry)]
  /\ UNCHANGED <<classrooms, dataset, origin, storeReply, AVAILABILITY_DATASET, heap, pc, request,
                 context, response, launcherVars, appVars>>

\* loadAvailabilityDataset, local files: build, normalize, keep as AVAILABILITY_DATASET
LoadLocal ==
  /\ LET Keep(normalized) ==
           /\ AVAILABILITY_DATASET' = TreeOf(normalized, "dataset")
           /\ heap' = HeapOf(normalized, "dataset")
         Normalize(built) ==
           /\ dataset' = built
           /\ IF built = TYPE_ERROR
              THEN /\ pc' = "crashed"
                   /\ UNCHANGED <<AVAILABILITY_DATASET, heap>>
              ELSE /\ pc' = "serving"
                   /\ Keep(normalizeAvailabilityDataset(built))
     IN  Normalize(buildAvailabilityDataset(stars, classrooms))
  /\ origin' = "files"

\* loadAvailabilityDataset without a store client
Load ==
  /\ pc = "input"
  /\ LoadLocal
  /\ UNCHANGED <<stars, classrooms, storeReply, request, context, response, launcherVars, appVars>>

\* res.json of a dataset: what the client receives, and the heap once it is sent
Send(route, revision, params, ctx, status, body, h) ==
  /\ pc' = "responded"
  /\ request' = [route |-> route, revision |-> revision, params |-> params]
  /\ context' = ctx
  /\ response' = [status |-> status, body |-> body]
  /\ heap' = Collect(AVAILABILITY_DATASET, h)
  /\ UNCHANGED <<stars, classrooms, dataset, origin, storeReply, AVAILABILITY_DATASET,
                 launcherVars, appVars>>

FiltersOfQuery(query) ==
  [size |-> IF Truthy(query.size) THEN query.size ELSE NULL,
   buildingId |-> IF Truthy(query.buildingId) THEN query.buildingId ELSE NULL,
   buildingCode |-> IF Truthy(query.buildingCode) THEN query.buildingCode ELSE NULL,
   roomNumber |-> IF Truthy(query.room) THEN query.room ELSE NULL]

OpenBody(filtered, h) ==
  [fetchedAt |-> filtered.fetchedAt,
   term |-> filtered.term,
   classSizes |-> filtered.classSizes,
   buildings |-> Deref(filtered, h).buildings,
   periodStartTimes |-> PERIOD_START_TIMES]

\* GET /api/rooms/open (backend/server.ts)
GetRoomsOpen(query, reading) ==
  /\ pc = "serving"
  /\ LET Reply(ctx, filtered, h) ==
           Send("open", "server", query, ctx, 200, OpenBody(filtered.dataset, h), h)
         Annotate(ctx, filtered) ==
           Reply(ctx, filtered, applyRealtimeStatus(filtered.heap, filtered.dataset, ctx))
     IN  Annotate(getCurrentEasternContext(reading[1], reading[2], reading[3]),
                  filterAvailability(heap, AVAILABILITY_DATASET, FiltersOfQuery(query)))

RoomBodyOf(filtered, sent) ==
  [building |-> sent.buildings[1],
   room |-> sent.buildings[1].rooms[1],
   fetchedAt |-> filtered.fetchedAt,
   term |-> filtered.term,
   periodStartTimes |-> PERIOD_START_TIMES]

RoomBody(filtered, h) == RoomBodyOf(filtered, Deref(filtered, h))

ErrorBody(message) == [error |-> message]

\* the filters GET /api/rooms/:id builds from the match of the identifier
FiltersOfMatch(match) ==
  [size |-> NULL, buildingId |-> NULL,
   buildingCode |-> match.buildingCode,
   roomNumber |-> padStart(match.roomNumberRaw, 4, "0")]

\* the end of GET /api/rooms/:id: 404 without a first building and room
ReplyRoom(revision, param, ctx, filtered, h) ==
  IF Len(filtered.dataset.buildings) = 0
  THEN Send("room", revision, param, ctx, 404, ErrorBody("Room not found"), h)
  ELSE Send("room", revision, param, ctx, 200, RoomBody(filtered.dataset, h), h)

\* GET /api/rooms/:id (backend/server.ts)
GetRoomById(param, reading) ==
  /\ pc = "serving"
  /\ LET Annotate(ctx, filtered) ==
           ReplyRoom("server", param, ctx, filtered,
                     applyRealtimeStatus(filtered.heap, filtered.dataset, ctx))
         Filter(ctx, match) ==
           IF match = NULL_OBJECT
           THEN Send("room", "server", param, ctx, 400,
                     ErrorBody("Invalid room identifier format."), heap)
           ELSE Annotate(ctx, filterAvailability(heap, AVAILABILITY_DATASET, FiltersOfMatch(match)))
     IN  Filter(getCurrentEasternContext(reading[1], reading[2], reading[3]),
                MatchRoomId(toUpperCase(param)))

\* GET /api/rooms/open (later revision)
GetRoomsOpenWithPeriods(query, periods, reading) ==
  /\ pc = "serving"
  /\ LET Reply(ctx, filtered, h) ==
           Send("open", "periods", [query |-> query, periods |-> periods], ctx, 200,
                OpenBody(filtered.dataset, h), h)
         Strip(ctx, periodFilters, filtered, annotated) ==
           Reply(ctx, filtered,
                 IF periodFilters = NULL_OBJECT
                 THEN stripPeriods(annotated, filtered.dataset)
                 ELSE annotated)
         Annotate(ctx, periodFilters, filtered) ==
           Strip(ctx, periodFilters, filtered,
                 applyRealtimeStatus(filtered.heap, filtered.dataset, ctx))
         Filter(ctx, periodFilters) ==
           Annotate(ctx, periodFilters,
                    filterAvailabilityWithPeriods(heap, AVAILABILITY_DATASET,
                                                  FiltersOfQuery(query), periodFilters))
     IN  Filter(getCurrentEasternContext(reading[1], reading[2], reading[3]),
                parsePeriodFilters(periods))

\* GET /api/rooms/:id (later revision)
GetRoomByIdStripped(param, reading) ==
  /\ pc = "serving"
  /\ LET Annotate(ctx, filtered) ==
           ReplyRoom("periods", param, ctx, filtered,
                     stripPeriods(applyRealtimeStatus(filtered.heap, filtered.dataset, ctx),
                                  filtered.dataset))
         Filter(ctx, match) ==
           IF match = NULL_OBJECT
           THEN Send("room", "periods", param, ctx, 400,
                     ErrorBody("Invalid room identifier format."), heap)
           ELSE Annotate(ctx, filterAvailabilityWithPeriods(heap, AVAILABILITY_DATASET,
                                                          FiltersOfMatch(match), NULL_OBJECT))
     IN  Filter(getCurrentEasternContext(reading[1], reading[2], reading[3]),
                MatchRoomId(toUpperCase(param)))

\* the response is on the wire and the handler has returned
Finish ==
  /\ pc = "responded"
  /\ pc' = "serving"
  /\ request' = NULL_OBJECT
  /\ context' = NULL_OBJECT
  /\ response' = NULL_OBJECT
  /\ UNCHANGED <<stars, classrooms, dataset, origin, storeReply, AVAILABILITY_DATASET, heap,
                 launcherVars, appVars>>

\* the loader on the snapshots of the loader model
Next ==
  \/ \E entry \in BuildEntries : AddEntry(entry, MaxEntries)
  \/ Load

Spec == Init /\ [][Next]_vars

\* the server on the snapshots of the server model
NextServer ==
  \/ \E entry \in ServerEntries : AddEntry(entry, MaxServerEntries)
  \/ Load
  \/ \E query \in OpenQueries, reading \in ClockReadings : GetRoomsOpen(query, reading)
  \/ \E param \in RoomIds, reading \in ClockReadings : GetRoomById(param, reading)
  \/ \E query \in OpenQueries, periods \in PeriodsQueries, reading \in LaterReadings :
       GetRoomsOpenWithPeriods(query, periods, reading)
  \/ \E param \in RoomIds, reading \in LaterReadings : GetRoomByIdStripped(param, reading)
  \/ Finish

\* the server model reads both local files
InitServer == Init /\ classrooms = SampleClassrooms

SpecServer == InitServer /\ [][NextServer]_vars

(***************************************************************************)
(* What a response shows: the buildings of a 200 response, and the         *)
(* SizeAvailability records in them.                                       *)
(***************************************************************************)
ResponseBuildings ==
  IF pc = "responded" /\ response.status = 200
  THEN IF request.route = "open"
       THEN response.body.buildings
       ELSE <<response.body.building>>
  ELSE <<>>

ResponseRecords ==
  UNION {UNION {{ResponseBuildings[b].rooms[r].availability[i].value
                   : i \in 1..Len(ResponseBuildings[b].rooms[r].availability)}
                : r \in 1..Len(ResponseBuildings[b].rooms)}
         : b \in 1..Len(ResponseBuildings)}

\* the records that went through computeStatus and still show its input list
StatusRecords ==
  IF context = NULL_OBJECT THEN {}
  ELSE {record \in ResponseRecords : "periods" \in DOMAIN record}

InsidePeriod(period, ctx) ==
  /\ period.day = ctx.dayCode
  /\ period.startMinutes <= ctx.minutes
  /\ ctx.minutes < period.endMinutes

\* C1: in every response, a record's isAvailableNow is true exactly when some
\* period of its list is on the current day with start <= minutes < end
\* (start inclusive, end exclusive).
C1_AvailableNowIffInsidePeriod ==
  \A record \in StatusRecords :
    record.isAvailableNow =
      (\E i \in 1..Len(record.periods) : InsidePeriod(record.periods[i], context))

\* a response at the first minute of a period, reported available
C1_Witness ==
  \E record \in StatusRecords :
    /\ record.isAvailableNow
    /\ \E i \in 1..Len(record.periods) :
         /\ record.periods[i].day = context.dayCode
         /\ record.periods[i].startMinutes = context.minutes

\* the day `offset` days after `dayCode` in DAY_SEQUENCE, wrapping after SU
DayAfter(dayCode, offset) ==
  DAY_SEQUENCE[((IndexIn(DAY_SEQUENCE, dayCode) - 1 + offset) % Len(DAY_SEQUENCE)) + 1]

\* nextAvailable names the period `period`
NamesPeriod(next, period) ==
  /\ next # NULL_OBJECT
  /\ next.day = period.day
  /\ next.dayLabel = DAY_LABELS(period.day)
  /\ next.period = period.period
  /\ next.startTime = period.startTime
  /\ next.endTime = period.endTime

\* the positions of the periods of today that start after the current minute
UpcomingToday(periods, ctx) ==
  {i \in 1..Len(periods) : periods[i].day = ctx.dayCode /\ periods[i].startMinutes > ctx.minutes}

\* the positions of the periods on `day`
OnDay(periods, day) == {i \in 1..Len(periods) : periods[i].day = day}

MondayAt500 == [dayCode |-> <<"M">>, minutes |-> 500]

\* C2: nextAvailable is (a) the earliest period of the current day that
\* starts strictly after the current minute, and without one (b) the first
\* period of the first later day that has a period, walking M..SU from
\* tomorrow and wrapping; with context {M, 500} and the single period M/2 the
\* record is not available now and nextAvailable is M/2.
C2_NextAvailableOrder ==
  \A record \in StatusRecords :
    /\ UpcomingToday(record.periods, context) # {} =>
         \E i \in UpcomingToday(record.periods, context) :
           /\ \A j \in UpcomingToday(record.periods, context) :
                record.periods[i].startMinutes <= record.periods[j].startMinutes
           /\ NamesPeriod(record.nextAvailable, record.periods[i])
    /\ UpcomingToday(record.periods, context) = {} =>
         \A offset \in 1..(Len(DAY_SEQUENCE) - 1) :
           ( /\ OnDay(record.periods, DayAfter(context.dayCode, offset)) # {}
             /\ \A earlier \in 1..(offset - 1) :
                  OnDay(record.periods, DayAfter(context.dayCode, earlier)) = {} )
           => \E i \in OnDay(record.periods, DayAfter(context.dayCode, offset)) :
                /\ \A j \in OnDay(record.periods, DayAfter(context.dayCode, offset)) : i <= j
                /\ NamesPeriod(record.nextAvailable, record.periods[i])
    /\ ( /\ context = MondayAt500
         /\ Len(record.periods) = 1
         /\ record.periods[1].day = <<"M">>
         /\ record.periods[1].period = <<"2">> )
       => /\ record.periods[1].startMinutes = 510
          /\ record.periods[1].endMinutes = 560
          /\ ~record.isAvailableNow
          /\ NamesPeriod(record.nextAvailable, record.periods[1])

\* a response on Sunday for a record whose first later period is on Monday,
\* after the walk wrapped, and whose list has periods of other days too
C2_Witness ==
  \E record \in StatusRecords :
    /\ context.dayCode = <<"S", "U">>
    /\ UpcomingToday(record.periods, context) = {}
    /\ record.nextAvailable # NULL_OBJECT
    /\ record.nextAvailable.day = <<"M">>
    /\ \E i \in 1..Len(record.periods) : record.periods[i].day = <<"T", "H">>

\* the example of C2: context {M, 500} and the single period M/2
C2_ExampleWitness ==
  \E record \in StatusRecords :
    /\ context = MondayAt500
    /\ Len(record.periods) = 1
    /\ record.periods[1].period = <<"2">>
    /\ NamesPeriod(record.nextAvailable, record.periods[1])

\* C3, as stated: a record with at least one period has a non-null
\* nextAvailable, whatever the current context.
C3_NextAvailableNullOnlyWithoutPeriods ==
  \A record \in StatusRecords :
    Len(record.periods) > 0 => record.nextAvailable # NULL_OBJECT

\* C4: while the server answers requests, AVAILABILITY_DATASET denotes the
\* dataset the loader produced: no request changes it or the objects it owns.
C4_DatasetUnchangedByRequests ==
  pc \in {"serving", "responded"} =>
    Deref(AVAILABILITY_DATASET, heap) = normalizeAvailabilityDataset(dataset)

\* a response of the later revision whose records were annotated, then stripped
C4_Witness ==
  /\ pc = "responded"
  /\ context # NULL_OBJECT
  /\ \E record \in ResponseRecords :
       /\ "periods" \notin DOMAIN record
       /\ "isAvailableNow" \in DOMAIN record
  /\ \E b \in 1..Len(AVAILABILITY_DATASET.buildings) :
       \E r \in 1..Len(AVAILABILITY_DATASET.buildings[b].rooms) :
         Len(heap[AVAILABILITY_DATASET.buildings[b].rooms[r].availability]) > 0

(***************************************************************************)
(* What the loader produced: the rooms of the built dataset and their      *)
(* size buckets.                                                           *)
(***************************************************************************)
\* every raw entry of the snapshot has its three string fields
ValidSnapshot ==
  \A b \in 1..Len(stars.buildings) :
    \A s \in 1..Len(stars.buildings[b].sizes) :
      \A e \in 1..Len(stars.buildings[b].sizes[s].value) :
        /\ stars.buildings[b].sizes[s].value[e].ROOM # NULL
        /\ stars.buildings[b].sizes[s].value[e].DAY # NULL
        /\ stars.buildings[b].sizes[s].value[e].PERIOD # NULL

Loaded == pc # "input"

Built == pc = "serving"

BuiltRooms ==
  IF Built
  THEN UNION {{dataset.buildings[b].rooms[r] : r \in 1..Len(dataset.buildings[b].rooms)}
              : b \in 1..Len(dataset.buildings)}
  ELSE {}

\* the period lists of the dataset, each with its room number and size key
BuiltBuckets ==
  UNION {{[number |-> room.number,
           size |-> room.availability[i].key,
           periods |-> room.availability[i].value.periods]
            : i \in 1..Len(room.availability)}
         : room \in BuiltRooms}

C6_NormalizeFixesBuilt ==
  Built =>
    /\ normalizeAvailabilityDataset(dataset) = dataset
    /\ normalizeAvailabilityDataset(normalizeAvailabilityDataset(dataset))
         = normalizeAvailabilityDataset(dataset)
    /\ Deref(AVAILABILITY_DATASET, heap) = dataset

\* a built dataset with a period of the table and one outside it
C6_Witness ==
  /\ Built
  /\ \E bucket \in BuiltBuckets :
       /\ \E i \in 1..Len(bucket.periods) : IsKnownPeriod(bucket.periods[i].period)
       /\ \E i \in 1..Len(bucket.periods) : ~IsKnownPeriod(bucket.periods[i].period)

\* the raw entries of the snapshot whose ROOM pads to `number`
EntriesOfRoom(number) == SelectSeq(Entries, LAMBDA e : padStart(e.ROOM, 4, "0") = number)

SlotsOf(entries) ==
  {<<toUpperCase(entries[i].DAY), toUpperCase(entries[i].PERIOD)>> : i \in 1..Len(entries)}

\* C7: the period list of a room and size holds each (upper-cased day,
\* upper-cased period) pair once, and exactly the pairs of the raw entries
\* whose ROOM pads to the room number; every such room number is a room.
C7_PairsCollapse ==
  (Built /\ ValidSnapshot) =>
    /\ \A bucket \in BuiltBuckets :
         /\ {<<bucket.periods[i].day, bucket.periods[i].period>> : i \in 1..Len(bucket.periods)}
              = SlotsOf(EntriesOfRoom(bucket.number))
         /\ Len(bucket.periods) = Cardinality(SlotsOf(EntriesOfRoom(bucket.number)))
    /\ {padStart(Entries[i].ROOM, 4, "0") : i \in 1..Len(Entries)}
         = {bucket.number : bucket \in BuiltBuckets}

\* the example of C7: 13/m/2 and 0013/M/2 give one period entry
C7_Witness ==
  /\ Built
  /\ Entries = <<RawEntry(Room13, <<"m">>, <<"2">>),
                 RawEntry(<<"0", "0", "1", "3">>, <<"M">>, <<"2">>)>>
  /\ \E bucket \in BuiltBuckets : Len(bucket.periods) = 1

\* positions i < j of a period list on the same day
SameDayPairs(periods) ==
  {pair \in (1..Len(periods)) \X (1..Len(periods)) :
     pair[1] < pair[2] /\ periods[pair[1]].day = periods[pair[2]].day}

\* the days of a period list go M, T, W, TH, F, S, SU, other codes last
DaysInWeekOrder(periods) ==
  \A i \in 1..Len(periods), j \in 1..Len(periods) :
    i < j => DAY_ORDER(periods[i].day) <= DAY_ORDER(periods[j].day)

\* C8, as stated: in every period list of the built dataset the days are in
\* week order and, within a day, startMinutes never decreases.
C8_SortedByDayThenStart ==
  \A bucket \in BuiltBuckets :
    /\ DaysInWeekOrder(bucket.periods)
    /\ \A pair \in SameDayPairs(bucket.periods) :
         bucket.periods[pair[1]].startMinutes <= bucket.periods[pair[2]].startMinutes

\* C8, amended: the days are in week order and, within a day, the periods
\* whose code is in the period table are in increasing order of startMinutes;
\* day M with the periods 9 and 2 gives the order 2, 9.
C8_KnownPeriodsSortedByStart ==
  \A bucket \in BuiltBuckets :
    /\ DaysInWeekOrder(bucket.periods)
    /\ \A pair \in SameDayPairs(bucket.periods) :
         ( /\ IsKnownPeriod(bucket.periods[pair[1]].period)
           /\ IsKnownPeriod(bucket.periods[pair[2]].period) )
         => bucket.periods[pair[1]].startMinutes < bucket.periods[pair[2]].startMinutes
    /\ SlotsOf(EntriesOfRoom(bucket.number)) = {<< <<"M">>, <<"9">> >>, << <<"M">>, <<"2">> >>}
       => /\ bucket.periods[1].period = <<"2">>
          /\ bucket.periods[2].period = <<"9">>

\* the raw entries M/10, th/e1, M/9 in that order, built into one list
\* that starts with period 9 of Monday and ends on Thursday
C8_Witness ==
  /\ Built
  /\ \E bucket \in BuiltBuckets :
       /\ Len(bucket.periods) = 3
       /\ Entries[1].PERIOD = <<"1", "0">>
       /\ Entries[2].DAY = <<"t", "h">>
       /\ Entries[3].PERIOD = <<"9">>
       /\ bucket.periods[1].period = <<"9">>
       /\ bucket.periods[3].day = <<"T", "H">>

\* strict order of two upper-case codes by their characters, digits before
\* letters, a proper prefix before its extensions
CharRank(c) == IF IsDigit(c) THEN IndexIn(Digits, c) ELSE 10 + IndexIn(UpperLetters, c)

CodeBefore(a, b) ==
  \E k \in 0..Len(a) :
    /\ k <= Len(b)
    /\ \A i \in 1..k : a[i] = b[i]
    /\ \/ k = Len(a) /\ k < Len(b)
       \/ k < Len(a) /\ k < Len(b) /\ CharRank(a[k + 1]) < CharRank(b[k + 1])

\* C9: within a day, every period whose code is outside the period table
\* comes after every period whose code is in it, and the codes outside the
\* table are in lexicographic order among themselves.
C9_UnknownAfterKnown ==
  \A bucket \in BuiltBuckets :
    \A pair \in SameDayPairs(bucket.periods) :
      /\ IsKnownPeriod(bucket.periods[pair[2]].period)
           => IsKnownPeriod(bucket.periods[pair[1]].period)
      /\ ( /\ ~IsKnownPeriod(bucket.periods[pair[1]].period)
           /\ ~IsKnownPeriod(bucket.periods[pair[2]].period) )
         => CodeBefore(bucket.periods[pair[1]].period, bucket.periods[pair[2]].period)

\* the raw entries M/ZZ, M/ab, M/2 in that order: 2 first, then AB, then ZZ
C9_Witness ==
  /\ Built
  /\ Len(Entries) = 3
  /\ Entries[1].PERIOD = <<"Z", "Z">>
  /\ Entries[2].PERIOD = <<"a", "b">>
  /\ \E bucket \in BuiltBuckets :
       /\ Len(bucket.periods) = 3
       /\ bucket.periods[1].period = <<"2">>
       /\ bucket.periods[2].period = <<"A", "B">>
       /\ bucket.periods[3].period = <<"Z", "Z">>

\* the orders in which the entries of a list can arrive
PermutationsOf(entries) ==
  {[i \in 1..Len(entries) |-> entries[p[i]]] : p \in Permutations(1..Len(entries))}

\* C10, as stated: every permutation of the raw entries of a room normalizes
\* to the period list the room got, day codes outside the week included.
C10_NormalizeIgnoresInputOrder ==
  (Built /\ ValidSnapshot) =>
    \A bucket \in BuiltBuckets :
      \A permuted \in PermutationsOf(EntriesOfRoom(bucket.number)) :
        normalizePeriodEntries(permuted) = bucket.periods


(***************************************************************************)
(* The loader with a snapshot store.  loadAvailabilityDataset first asks   *)
(* the store for the latest persisted dataset and, when it gets one,       *)
(* returns its normalization without reading the local files.              *)
(***************************************************************************)
MaxStoreEntries == 1

\* raw entries of the local files in the store model
StoreEntries ==
  { RawEntry(Room13, <<"M">>, <<"2">>),
    RawEntry(Room13, <<"m">>, <<"z", "z">>) }

\* a persisted period entry that carries every field
StoredPeriod(day, period, startMinutes, endMinutes) ==
  [day |-> day, period |-> period,
   startTime |-> <<"s">>, endTime |-> <<"e">>,
   startMinutes |-> startMinutes, endMinutes |-> endMinutes]

\* the shapes of room.availability in a persisted dataset: canonical records,
\* a bare array of raw entries, records without minute fields, an empty list,
\* a value that is no record
StoredAvailabilities ==
  { <<[key |-> SizeTen,
       value |-> [periods |-> <<StoredPeriod(<<"M">>, <<"2">>, 510, 560),
                                StoredPeriod(<<"M">>, <<"Z", "Z">>, 600, 650)>>]]>>,
    <<[key |-> SizeTen,
       value |-> [array |-> <<[DAY |-> <<"m">>, PERIOD |-> <<"z", "z">>],
                              [DAY |-> <<"M">>, PERIOD |-> <<"2">>]>>]]>>,
    <<[key |-> SizeTen,
       value |-> [periods |-> <<[day |-> <<"S">>, period |-> <<"Q">>]>>]],
      [key |-> <<"L", "G">>, value |-> [periods |-> <<>>]]>>,
    <<[key |-> SizeTen, value |-> [array |-> <<>>]],
      [key |-> <<"L", "G">>, value |-> [periods |-> <<[day |-> <<"M">>, period |-> <<"9">>]>>]]>>,
    <<[key |-> SizeTen, value |-> NULL_OBJECT]>>,
    <<[key |-> SizeTen,
       value |-> [periods |-> <<[day |-> <<"M">>, period |-> <<"2">>],
                                [day |-> NOT_A_STRING, period |-> <<"2">>]>>]]>> }

\* a persisted dataset of one building and one room
StoredDataset(availability) ==
  [fetchedAt |-> <<"t", "1">>,
   term |-> <<"F", "2", "5">>,
   classSizes |-> <<SizeTen, <<"L", "G">>>>,
   buildings |->
     <<[id |-> <<"B", "1">>,
        code |-> <<"A", "N", "D">>,
        name |-> <<"A", "n", "d">>,
        campusId |-> NULL,
        lat |-> NULL,
        lng |-> NULL,
        rooms |-> <<[number |-> <<"0", "0", "1", "3">>,
                     metadata |-> NULL_OBJECT,
                     availability |-> availability]>>]>>]

StoredRecords == {StoredDataset(availability) : availability \in StoredAvailabilities}

Resolved(error, data) == [kind |-> "resolved", error |-> error, data |-> data]

\* the answers of the store: a persisted dataset, with or without an error
\* next to it, no data, an error, an exception
StoreReplies ==
  {Resolved(FALSE, record) : record \in StoredRecords}
    \cup { Resolved(FALSE, NULL_OBJECT),
           Resolved(TRUE, NULL_OBJECT),
           Resolved(TRUE, StoredDataset(<<>>)),
           [kind |-> "thrown"] }

\* the loader returns from inside the try block: the store resolved without
\* error and with data, and the re-shaping of the data did not raise
ReturnsStored(reply) ==
  /\ reply.kind = "resolved"
  /\ ~reply.error
  /\ reply.data # NULL_OBJECT
  /\ normalizeAvailabilityDataset(reply.data) # TYPE_ERROR

\* loadAvailabilityDataset with a store client: normalize data.data and keep
\* the result, or go on to the local files
LoadStored(reply) ==
  /\ pc = "input"
  /\ storeReply' = reply
  /\ IF ReturnsStored(reply)
     THEN /\ dataset' = reply.data
          /\ origin' = "store"
          /\ AVAILABILITY_DATASET' = TreeOf(normalizeAvailabilityDataset(reply.data), "dataset")
          /\ heap' = HeapOf(normalizeAvailabilityDataset(reply.data), "dataset")
          /\ pc' = "serving"
     ELSE LoadLocal
  /\ UNCHANGED <<stars, classrooms, request, context, response, launcherVars, appVars>>

\* the clock readings of the store model: a weekday the mapping knows, one it
\* does not know, and readings with a part missing
StoreReadings ==
  { << <<"M", "o", "n">>, <<"0", "8">>, <<"3", "0">> >>,
    << <<"S", "a", "t">>, <<"1", "6">>, <<"4", "0">> >>,
    << <<"X", "y", "z">>, <<"0", "8">>, <<"3", "0">> >>,
    <<NULL, <<"0", "8">>, <<"3", "0">> >>,
    << <<"M", "o", "n">>, NULL, <<"3", "0">> >>,
    << <<"M", "o", "n">>, <<"0", "8">>, NULL>> }

StoreQueries ==
  { Query(NULL, NULL, NULL, NULL),
    Query(<<"l", "g">>, NULL, NULL, NULL),
    Query(NULL, NULL, <<"A", "n", "d">>, <<"1", "3">>) }

StoreRoomIds == { <<"a", "n", "d", "-", "1", "3">>, <<"a", "-", "1">> }

\* the server of backend/server.ts on local files or on a persisted dataset
NextStore ==
  \/ \E entry \in StoreEntries : AddEntry(entry, MaxStoreEntries)
  \/ Load
  \/ \E reply \in StoreReplies : LoadStored(reply)
  \/ \E query \in StoreQueries, reading \in StoreReadings : GetRoomsOpen(query, reading)
  \/ \E param \in StoreRoomIds, reading \in StoreReadings : GetRoomById(param, reading)
  \/ Finish

SpecStore == Init /\ [][NextStore]_vars

\* the later revision of the server on a persisted dataset
NextLater ==
  \/ \E reply \in StoreReplies : LoadStored(reply)
  \/ \E query \in StoreQueries, periods \in PeriodsQueries, reading \in StoreReadings :
       GetRoomsOpenWithPeriods(query, periods, reading)
  \/ \E param \in StoreRoomIds, reading \in StoreReadings : GetRoomByIdStripped(param, reading)
  \/ Finish

SpecLater == Init /\ [][NextLater]_vars

(***************************************************************************)
(* The loader alone, on every answer of the store and on local files that  *)
(* are unreadable, empty, well formed, or parsed but not of the snapshot's  *)
(* shape.                                                                  *)
(***************************************************************************)
MaxLoadEntries == 1

\* raw entries of the local schedule file in the loader model; the last one
\* has no ROOM
LoadEntries ==
  { RawEntry(Room13, <<"M">>, <<"2">>),
    RawEntry(Room13, <<"m">>, <<"z", "z">>),
    RawEntry(NULL, <<"M">>, <<"2">>) }

InitLoad ==
  /\ stars \in {NULL_OBJECT, InitialStars}
  /\ classrooms \in {NULL_OBJECT, SampleClassrooms}
  /\ dataset = NULL_OBJECT
  /\ origin = "none"
  /\ storeReply = NoStore
  /\ AVAILABILITY_DATASET = NULL_OBJECT
  /\ heap = <<>>
  /\ pc = "input"
  /\ request = NULL_OBJECT
  /\ context = NULL_OBJECT
  /\ response = NULL_OBJECT
  /\ LauncherNotStarted
  /\ AppNotMounted

NextLoad ==
  \/ \E entry \in LoadEntries : AddEntry(entry, MaxLoadEntries)
  \/ Load
  \/ \E reply \in StoreReplies : LoadStored(reply)

SpecLoad == InitLoad /\ [][NextLoad]_vars


(***************************************************************************)
(* The loader on a campus snapshot: several buildings in an order that is  *)
(* not the output order, two records of one building id, buildings with    *)
(* and without a code, with and without sizes, and a size key in lower     *)
(* case; or no schedule snapshot at all.                                   *)
(***************************************************************************)
MaxBuildEntries == 2

CampusBuilding(id, name, code) ==
  [id |-> id, name |-> name, code |-> code, campusId |-> NULL, lat |-> NULL, lng |-> NULL]

CampusStars ==
  [fetchedAt |-> <<"t", "0">>,
   term |-> <<"F", "2", "5">>,
   classSizes |-> <<SizeTen, <<"l", "g">> >>,
   buildings |->
     <<[sizes |-> <<[key |-> SizeTen, value |-> <<>>]>>]
         @@ CampusBuilding(<<"B", "3">>, <<"Z", "e", "d">>, NULL),
       [sizes |-> <<[key |-> SizeTen, value |-> <<>>]>>]
         @@ CampusBuilding(<<"B", "2">>, <<"M", "a", "t">>, <<"m", "a", "t">>),
       [sizes |-> <<[key |-> SizeTen, value |-> <<>>], [key |-> <<"l", "g">>, value |-> <<>>]>>]
         @@ CampusBuilding(<<"B", "1">>, <<"A", "n", "d">>, CodeAnd),
       CampusBuilding(<<"B", "4">>, <<"A", "r", "k">>, <<>>),
       [sizes |-> <<[key |-> SizeTen, value |-> <<>>]>>]
         @@ CampusBuilding(<<"B", "1">>, <<"A", "n", "d", "2">>, <<"x", "x">>)>>]

ClassroomRecord(buildingCode, roomNumber, capacity) ==
  [buildingCode |-> buildingCode,
   roomNumber |-> roomNumber,
   name |-> <<"n">>,
   displayName |-> <<"d">>,
   capacity |-> capacity,
   photo |-> NULL,
   gallery |-> <<>>,
   features |-> <<>>,
   featureFlags |-> <<>>,
   detailUrl |-> <<"u">>]

\* metadata records: two under one key, one with an unpadded room number, one
\* whose room number differs in case from the room's, one without a building code
CampusClassrooms ==
  [fetchedAt |-> <<"t", "0">>,
   source |-> <<"s">>,
   rooms |->
     <<ClassroomRecord(<<"A", "N", "D">>, <<"0", "0", "1", "3">>, <<"4", "0">>),
       ClassroomRecord(<<"a", "n", "d">>, <<"0", "0", "1", "3">>, <<"9", "9">>),
       ClassroomRecord(<<"M", "A", "T">>, <<"7">>, <<"2", "0">>),
       ClassroomRecord(<<"M", "A", "T">>, <<"0", "0", "a", "1">>, <<"3", "0">>),
       ClassroomRecord(<<>>, <<"0", "0", "1", "3">>, <<"5", "0">>)>>]

\* a metadata snapshot with a record that lacks its building code
BrokenClassrooms ==
  [fetchedAt |-> <<"t", "0">>,
   source |-> <<"s">>,
   rooms |-> <<ClassroomRecord(NULL, <<"0", "0", "1", "3">>, <<"4", "0">>)>>]

CampusEntries ==
  { RawEntry(Room13, <<"M">>, <<"2">>),
    RawEntry(<<"0", "0", "1", "3">>, <<"t">>, <<"2">>),
    RawEntry(<<"7">>, <<"M">>, <<"9">>),
    RawEntry(<<"a", "1">>, <<"M">>, <<"2">>) }

InitBuild ==
  /\ stars \in {CampusStars, NULL_OBJECT}
  /\ classrooms \in {NULL_OBJECT, CampusClassrooms, BrokenClassrooms,
                     [fetchedAt |-> <<"t", "0">>, source |-> <<"s">>]}
  /\ dataset = NULL_OBJECT
  /\ origin = "none"
  /\ storeReply = NoStore
  /\ AVAILABILITY_DATASET = NULL_OBJECT
  /\ heap = <<>>
  /\ pc = "input"
  /\ request = NULL_OBJECT
  /\ context = NULL_OBJECT
  /\ response = NULL_OBJECT
  /\ LauncherNotStarted
  /\ AppNotMounted

\* the raw entries of the size lists of a building record
RECURSIVE SizeEntriesOf(_)
SizeEntriesOf(sizes) ==
  IF sizes = <<>> THEN <<>> ELSE Head(sizes).value \o SizeEntriesOf(Tail(sizes))

\* the raw entries of a snapshot's buildings, in snapshot order
RECURSIVE AllEntries(_)
AllEntries(buildings) ==
  IF buildings = <<>> THEN <<>>
  ELSE (IF "sizes" \in DOMAIN Head(buildings) THEN SizeEntriesOf(Head(buildings).sizes) ELSE <<>>)
         \o AllEntries(Tail(buildings))

\* one more raw entry in size list s of building record b of the snapshot
AddEntryTo(b, s, entry) ==
  /\ pc = "input"
  /\ stars # NULL_OBJECT
  /\ Len(AllEntries(stars.buildings)) < MaxBuildEntries
  /\ b \in 1..Len(stars.buildings)
  /\ "sizes" \in DOMAIN stars.buildings[b]
  /\ s \in 1..Len(stars.buildings[b].sizes)
  /\ stars' = [stars EXCEPT !.buildings[b].sizes[s].value = Append(@, entry)]
  /\ UNCHANGED <<classrooms, dataset, origin, storeReply, AVAILABILITY_DATASET, heap, pc, request,
                 context, response, launcherVars, appVars>>

NextBuild ==
  \/ \E b \in 1..5, s \in 1..2, entry \in CampusEntries : AddEntryTo(b, s, entry)
  \/ Load

SpecBuild == InitBuild /\ [][NextBuild]_vars

(***************************************************************************)
(* What the server holds once it has loaded, and what the loader read.     *)
(***************************************************************************)
Serving == pc \in {"serving", "responded"}

\* the dataset the server holds, by value
Held == Deref(AVAILABILITY_DATASET, heap)

\* the rooms of a dataset, each with its building: <<building, room>>
RoomsOfDataset(d) ==
  UNION {{<<d.buildings[b], d.buildings[b].rooms[r]>> : r \in 1..Len(d.buildings[b].rooms)}
         : b \in 1..Len(d.buildings)}

\* the period entries of a dataset
PeriodsOfDataset(d) ==
  UNION {UNION {{pair[2].availability[i].value.periods[j]
                   : j \in 1..Len(pair[2].availability[i].value.periods)}
                : i \in 1..Len(pair[2].availability)}
         : pair \in RoomsOfDataset(d)}

\* the items of a persisted size record, <<>> when it has no list
StoredItems(record) ==
  IF "array" \in DOMAIN record THEN record.array
  ELSE IF "periods" \in DOMAIN record THEN record.periods
  ELSE <<>>

\* the period code a persisted item names, upper-cased
StoredCode(raw) ==
  toUpperCase(IF "period" \in DOMAIN raw THEN raw.period
              ELSE IF "PERIOD" \in DOMAIN raw THEN raw.PERIOD ELSE <<>>)

\* the persisted items next to the entries the server holds for them:
\* <<raw item, held entry>>, matched by building, room, size key and position
StoredPairs ==
  IF Serving /\ origin = "store"
  THEN UNION {UNION {UNION {
         {<<StoredItems(dataset.buildings[b].rooms[r].availability[i].value)[j],
            ObjGet(Held.buildings[b].rooms[r].availability,
                   dataset.buildings[b].rooms[r].availability[i].key).periods[j]>>
            : j \in 1..Len(StoredItems(dataset.buildings[b].rooms[r].availability[i].value))}
         : i \in 1..Len(dataset.buildings[b].rooms[r].availability)}
         : r \in 1..Len(dataset.buildings[b].rooms)}
         : b \in 1..Len(dataset.buildings)}
  ELSE {}

PlaceholderMinutes(entry) == entry.startMinutes = 0 /\ entry.endMinutes = 60

PlaceholderTimes(entry) ==
  /\ entry.startTime = <<"1", "2", ":", "0", "0", " ", "A", "M">>
  /\ entry.endTime = <<"1", ":", "0", "0", " ", "A", "M">>

\* the raw entries of the local snapshot whose period code is not in the table
UnknownEntries ==
  {e \in 1..Len(Entries) : Entries[e].PERIOD # NULL /\ ~IsKnownPeriod(toUpperCase(Entries[e].PERIOD))}

\* C11: a period code outside the table is no error.  Building the dataset
\* from a valid snapshot does not throw, and every raw entry with such a code
\* shows in its room as a period from minute 0 to minute 60, 12:00 AM to
\* 1:00 AM.  Normalizing a persisted record does not fail either, and an item
\* with such a code and no minute fields is held with startMinutes 0 and
\* endMinutes 60 (and the placeholder times when it carries no times).
C11_UnknownPeriodGetsPlaceholder ==
  /\ ValidSnapshot =>
       /\ buildAvailabilityDataset(stars, classrooms) # TYPE_ERROR
       /\ \A entry \in PeriodsOfDataset(buildAvailabilityDataset(stars, classrooms)) :
            ~IsKnownPeriod(entry.period) => PlaceholderMinutes(entry) /\ PlaceholderTimes(entry)
       /\ \A e \in UnknownEntries :
            \E entry \in PeriodsOfDataset(buildAvailabilityDataset(stars, classrooms)) :
              /\ entry.day = toUpperCase(Entries[e].DAY)
              /\ entry.period = toUpperCase(Entries[e].PERIOD)
  /\ origin = "store" => pc # "crashed"
  /\ \A pair \in StoredPairs :
       /\ pair[2].period = StoredCode(pair[1])
       /\ (~IsKnownPeriod(StoredCode(pair[1])) /\ "startMinutes" \notin DOMAIN pair[1]
             /\ "endMinutes" \notin DOMAIN pair[1]) =>
            /\ PlaceholderMinutes(pair[2])
            /\ ("startTime" \notin DOMAIN pair[1] /\ "endTime" \notin DOMAIN pair[1]) =>
                 PlaceholderTimes(pair[2])

\* a server that loaded a persisted item with an unknown code and no minute
\* fields, next to a local snapshot with an entry of an unknown code
C11_Witness ==
  /\ \E pair \in StoredPairs :
       /\ ~IsKnownPeriod(StoredCode(pair[1]))
       /\ "startMinutes" \notin DOMAIN pair[1]
       /\ PlaceholderMinutes(pair[2])
  /\ UnknownEntries # {}
  /\ \E entry \in PeriodsOfDataset(buildAvailabilityDataset(stars, classrooms)) :
       ~IsKnownPeriod(entry.period) /\ PlaceholderMinutes(entry)


\* the rooms the server holds after a load from the local files
BuiltFromFiles == IF Serving /\ origin = "files" THEN RoomsOfDataset(Held) ELSE {}

\* a request for the size `key` in `building` gets `room` back with that bucket
FoundBySize(building, room, key) ==
  LET Found(filtered) ==
        \E pair \in RoomsOfDataset(Deref(filtered.dataset, filtered.heap)) :
          /\ pair[1].id = building.id
          /\ pair[2].number = room.number
          /\ ObjHas(pair[2].availability, toUpperCase(key))
  IN  Found(filterAvailability(heap, AVAILABILITY_DATASET,
                               [size |-> key, buildingId |-> building.id,
                                buildingCode |-> NULL, roomNumber |-> NULL]))

\* C12: in a dataset built from the local files every key of a room's
\* availability map is upper-cased, and a size filter, which the HTTP layer
\* upper-cases, finds every bucket whatever the case of the key in the snapshot.
C12_SizeKeysUpperCased ==
  \A pair \in BuiltFromFiles :
    \A i \in 1..Len(pair[2].availability) :
      /\ pair[2].availability[i].key = toUpperCase(pair[2].availability[i].key)
      /\ FoundBySize(pair[1], pair[2], pair[2].availability[i].key)


\* `raw` with zeros in front up to four characters, unchanged from four on
ZeroPadded(raw) ==
  IF Len(raw) >= 4 THEN raw
  ELSE [i \in 1..4 |-> IF i <= 4 - Len(raw) THEN "0" ELSE raw[i - (4 - Len(raw))]]

\* the raw entries the snapshot lists under building id `id`, each with its
\* size key: <<size, entry>>
RawOfBuilding(id) ==
  IF stars = NULL_OBJECT THEN {}
  ELSE UNION {UNION {{<<stars.buildings[b].sizes[k].key, stars.buildings[b].sizes[k].value[e]>>
                        : e \in 1..Len(stars.buildings[b].sizes[k].value)}
                     : k \in 1..Len(stars.buildings[b].sizes)}
              : b \in {c \in 1..Len(stars.buildings) :
                         stars.buildings[c].id = id /\ "sizes" \in DOMAIN stars.buildings[c]}}

\* the buildings the server holds after a load from the local files
BuildingsFromFiles == IF Serving /\ origin = "files" THEN Held.buildings ELSE <<>>

\* C13: in a built dataset each room number is a raw ROOM value with zeros in
\* front up to four characters; every raw entry of a building has the room of
\* its padded number in that building, so entries that pad to the same value
\* are in the same room; and no building has two rooms with the same number.
C13_RoomNumbersPaddedAndUnique ==
  \A b \in 1..Len(BuildingsFromFiles) :
    LET rooms == BuildingsFromFiles[b].rooms
    IN  /\ \A r \in 1..Len(rooms) :
             /\ Len(rooms[r].number) >= 4
             /\ \E pair \in RawOfBuilding(BuildingsFromFiles[b].id) :
                  rooms[r].number = ZeroPadded(pair[2].ROOM)
        /\ \A pair \in RawOfBuilding(BuildingsFromFiles[b].id) :
             \E r \in 1..Len(rooms) : rooms[r].number = ZeroPadded(pair[2].ROOM)
        /\ \A r1, r2 \in 1..Len(rooms) : rooms[r1].number = rooms[r2].number => r1 = r2

\* a built building whose raw entries name one room as "13" and as "0013"
C13_Witness ==
  \E b \in 1..Len(BuildingsFromFiles) :
    /\ \E p1, p2 \in RawOfBuilding(BuildingsFromFiles[b].id) :
         /\ p1[2].ROOM # p2[2].ROOM
         /\ ZeroPadded(p1[2].ROOM) = ZeroPadded(p2[2].ROOM)
    /\ Len(BuildingsFromFiles[b].rooms) = 1
    /\ BuildingsFromFiles[b].rooms[1].number = <<"0", "0", "1", "3">>


\* the size buckets the server holds: <<room number, size key, period list>>
HeldBuckets ==
  IF Serving
  THEN UNION {{<<pair[2].number, pair[2].availability[i].key, pair[2].availability[i].value.periods>>
                 : i \in 1..Len(pair[2].availability)}
              : pair \in RoomsOfDataset(Held)}
  ELSE {}

\* C14 as stated: in the dataset the server holds, built from the local files
\* or normalized from a persisted record, no size bucket has an empty period list.
C14_NoEmptyBucketHeld ==
  \A bucket \in HeldBuckets : Len(bucket[3]) > 0

\* C14, amended: a dataset built from the local files holds no empty size
\* bucket; a dataset normalized from a persisted record holds, room by room,
\* exactly the size keys of the record, each with as many periods as the
\* record lists under it, none when the value has no list.
C14_EmptyBucketOnlyFromStore ==
  /\ origin = "files" => \A bucket \in HeldBuckets : bucket[3] # <<>>
  /\ (Serving /\ origin = "store") =>
       \A b \in 1..Len(dataset.buildings) :
         \A r \in 1..Len(dataset.buildings[b].rooms) :
           LET stored == dataset.buildings[b].rooms[r].availability
               held == Held.buildings[b].rooms[r].availability
           IN  /\ Len(held) = Len(stored)
               /\ \A i \in 1..Len(stored) :
                    /\ held[i].key = stored[i].key
                    /\ Len(held[i].value.periods) = Len(StoredItems(stored[i].value))

\* a server holding, from a persisted record, a room with periods under one
\* size and an empty bucket under another
C14_Witness ==
  /\ origin = "store"
  /\ \E b1, b2 \in HeldBuckets :
       b1[1] = b2[1] /\ Len(b1[3]) = 0 /\ Len(b2[3]) > 0


HasCode(building) == building.code # NULL /\ building.code # <<>>

\* C15: in a built dataset the buildings with a code come first, in
\* lexicographic order of their upper-cased code; the buildings without a
\* code come after all of them, in the order of their names; the rooms of a
\* building are in the order of their room numbers (strings are compared as
\* localeCompare collates them).
C15_BuildingsAndRoomsOrdered ==
  /\ \A i, j \in 1..Len(BuildingsFromFiles) :
       i < j =>
         /\ HasCode(BuildingsFromFiles[j]) => HasCode(BuildingsFromFiles[i])
         /\ (HasCode(BuildingsFromFiles[i]) /\ HasCode(BuildingsFromFiles[j])) =>
              \/ BuildingsFromFiles[i].code = BuildingsFromFiles[j].code
              \/ CodeBefore(BuildingsFromFiles[i].code, BuildingsFromFiles[j].code)
         /\ (~HasCode(BuildingsFromFiles[i]) /\ ~HasCode(BuildingsFromFiles[j])) =>
              localeCompare(BuildingsFromFiles[i].name, BuildingsFromFiles[j].name) <= 0
  /\ \A b \in 1..Len(BuildingsFromFiles) :
       /\ HasCode(BuildingsFromFiles[b]) =>
            BuildingsFromFiles[b].code = toUpperCase(BuildingsFromFiles[b].code)
       /\ \A r1, r2 \in 1..Len(BuildingsFromFiles[b].rooms) :
            r1 < r2 => localeCompare(BuildingsFromFiles[b].rooms[r1].number,
                                     BuildingsFromFiles[b].rooms[r2].number) <= 0

\* a dataset built from a snapshot that lists a code-less building first and
\* MAT before AND, and room 13 before room 7 in one size list: the buildings
\* are [AND, MAT, Ark, Zed] and the rooms [0007, 0013]
C15_Witness ==
  /\ Len(BuildingsFromFiles) = 4
  /\ BuildingsFromFiles[1].code = <<"A", "N", "D">>
  /\ BuildingsFromFiles[2].code = <<"M", "A", "T">>
  /\ BuildingsFromFiles[3].name = <<"A", "r", "k">> /\ ~HasCode(BuildingsFromFiles[3])
  /\ BuildingsFromFiles[4].name = <<"Z", "e", "d">> /\ ~HasCode(BuildingsFromFiles[4])
  /\ ~HasCode(stars.buildings[1])
  /\ \E b \in 1..Len(stars.buildings) :
       /\ "sizes" \in DOMAIN stars.buildings[b]
       /\ \E k \in 1..Len(stars.buildings[b].sizes) :
            /\ Len(stars.buildings[b].sizes[k].value) = 2
            /\ stars.buildings[b].sizes[k].value[1].ROOM = Room13
            /\ stars.buildings[b].sizes[k].value[2].ROOM = <<"7">>
  /\ \E b \in 1..4 :
       /\ Len(BuildingsFromFiles[b].rooms) = 2
       /\ BuildingsFromFiles[b].rooms[1].number = <<"0", "0", "0", "7">>
       /\ BuildingsFromFiles[b].rooms[2].number = <<"0", "0", "1", "3">>


\* C16: without a schedule snapshot the builder returns, whatever the
\* metadata snapshot is and without failing, a dataset stamped with the
\* current time that has no buildings, no class sizes and an empty term;
\* with a snapshot, fetchedAt and term of the result are those of the snapshot.
C16_EmptyDatasetWithoutSnapshot ==
  (origin = "files") =>
    /\ stars = NULL_OBJECT =>
         /\ pc = "serving"
         /\ dataset = [fetchedAt |-> NOW, term |-> <<>>, classSizes |-> <<>>, buildings |-> <<>>]
         /\ Held = dataset
    /\ (stars # NULL_OBJECT /\ pc = "serving") =>
         /\ dataset.fetchedAt = stars.fetchedAt
         /\ dataset.term = stars.term
         /\ Held.fetchedAt = stars.fetchedAt
         /\ Held.term = stars.term

\* a server that loaded without a schedule snapshot, next to a metadata
\* snapshot whose record would make the builder throw
C16_Witness ==
  /\ stars = NULL_OBJECT
  /\ classrooms = BrokenClassrooms
  /\ pc = "serving"
  /\ Held.buildings = <<>>


\* C17: whatever the current context is, a room/size record whose period list
\* is empty leaves applyRealtimeStatus with isAvailableNow false and
\* nextAvailable null.
C17_EmptyListNeverAvailable ==
  \A record \in StatusRecords :
    record.periods = <<>> =>
      /\ record.isAvailableNow = FALSE
      /\ record.nextAvailable = NULL_OBJECT

\* a response, annotated for a Saturday afternoon, with a size record that
\* has no periods
C17_Witness ==
  /\ context # NULL_OBJECT
  /\ context.dayCode = <<"S">>
  /\ \E record \in StatusRecords :
       /\ record.periods = <<>>
       /\ "isAvailableNow" \in DOMAIN record
       /\ ~record.isAvailableNow


(***************************************************************************)
(* The dataset a handler of backend/server.ts gave to applyRealtimeStatus, *)
(* recomputed from the request, next to the dataset it sent.               *)
(***************************************************************************)
Answered == pc = "responded" /\ request.revision = "server" /\ response.status = 200

\* the filters of the request being answered
FiltersOfRequest ==
  IF request.route = "open"
  THEN FiltersOfQuery(request.params)
  ELSE FiltersOfMatch(MatchRoomId(toUpperCase(request.params)))

ValueOfFiltered(filtered) == Deref(filtered.dataset, filtered.heap)

\* the filtered dataset, by value, before the status pass
GivenToStatus == ValueOfFiltered(filterAvailability(heap, AVAILABILITY_DATASET, FiltersOfRequest))

\* the buildings of it that the response shows
GivenBuildings ==
  IF request.route = "open" THEN GivenToStatus.buildings ELSE <<GivenToStatus.buildings[1]>>

\* buildings `after` are buildings `before` up to the size records: the same
\* buildings in the same order, each with the same rooms, metadata and size keys
SameUpToRecords(before, after) ==
  /\ Len(after) = Len(before)
  /\ \A b \in 1..Len(before) :
       /\ [after[b] EXCEPT !.rooms = <<>>] = [before[b] EXCEPT !.rooms = <<>>]
       /\ Len(after[b].rooms) = Len(before[b].rooms)
       /\ \A r \in 1..Len(before[b].rooms) :
            /\ after[b].rooms[r].number = before[b].rooms[r].number
            /\ after[b].rooms[r].metadata = before[b].rooms[r].metadata
            /\ Len(after[b].rooms[r].availability) = Len(before[b].rooms[r].availability)
            /\ \A i \in 1..Len(before[b].rooms[r].availability) :
                 after[b].rooms[r].availability[i].key = before[b].rooms[r].availability[i].key

\* the size records of buildings `before` next to those of `after`: <<before, after>>
RecordPairs(before, after) ==
  UNION {UNION {{<<before[b].rooms[r].availability[i].value, after[b].rooms[r].availability[i].value>>
                   : i \in 1..Len(before[b].rooms[r].availability)}
                : r \in 1..Len(before[b].rooms)}
         : b \in 1..Len(before)}

\* C18: applyRealtimeStatus returns the dataset it was given with only the
\* status changed: the response shows the buildings of the filtered dataset
\* in their order, with the same rooms, metadata and size keys, every size
\* record with the same sequence of period entries, and isAvailableNow and
\* nextAvailable set to the status of those periods for the current context.
C18_OnlyStatusChanges ==
  (Answered /\ context # NULL_OBJECT) =>
    /\ SameUpToRecords(GivenBuildings, ResponseBuildings)
    /\ request.route = "open" =>
         /\ response.body.fetchedAt = GivenToStatus.fetchedAt
         /\ response.body.term = GivenToStatus.term
         /\ response.body.classSizes = GivenToStatus.classSizes
    /\ \A pair \in RecordPairs(GivenBuildings, ResponseBuildings) :
         /\ DOMAIN pair[2] = {"periods", "isAvailableNow", "nextAvailable"}
         /\ pair[2].periods = pair[1].periods
         /\ pair[2].isAvailableNow = computeStatus(pair[1].periods, context).isAvailableNow
         /\ pair[2].nextAvailable = computeStatus(pair[1].periods, context).nextAvailable

\* an annotated response with a room of two size keys, one of them with
\* periods on a day other than the current one and a next period to show
C18_Witness ==
  /\ Answered
  /\ context # NULL_OBJECT
  /\ \E b \in 1..Len(ResponseBuildings) :
       \E r \in 1..Len(ResponseBuildings[b].rooms) :
         /\ Len(ResponseBuildings[b].rooms[r].availability) = 2
         /\ \E i \in 1..2 :
              LET record == ResponseBuildings[b].rooms[r].availability[i].value
              IN  /\ record.nextAvailable # NULL_OBJECT
                  /\ \E j \in 1..Len(record.periods) : record.periods[j].day # context.dayCode


\* the clock reading yields no context: a part is missing or empty, or the
\* weekday begins with none of the seven names the mapping knows
Underivable(reading) ==
  \/ \E k \in 1..3 : reading[k] = NULL \/ reading[k] = <<>>
  \/ /\ reading[1] # NULL
     /\ \/ Len(reading[1]) < 3
        \/ [i \in 1..3 |-> toLowerChar(reading[1][i])] \notin
             { <<"m", "o", "n">>, <<"t", "u", "e">>, <<"w", "e", "d">>, <<"t", "h", "u">>,
               <<"f", "r", "i">>, <<"s", "a", "t">>, <<"s", "u", "n">> }

\* C19: a clock reading without weekday, hour or minute, or with a weekday
\* that maps to no day code, yields no context, and without a context
\* applyRealtimeStatus leaves the dataset as it was given: the response shows
\* the filtered dataset itself, no size record with isAvailableNow or
\* nextAvailable, and the request is answered as usual.
C19_NoContextNoChange ==
  /\ \A reading \in StoreReadings :
       Underivable(reading) <=>
         getCurrentEasternContext(reading[1], reading[2], reading[3]) = NULL_OBJECT
  /\ (Answered /\ context = NULL_OBJECT) =>
       /\ ResponseBuildings = GivenBuildings
       /\ \A record \in ResponseRecords : DOMAIN record = {"periods"}

\* a 200 response sent without a context: rooms with periods, no status
C19_Witness ==
  /\ Answered
  /\ context = NULL_OBJECT
  /\ \E record \in ResponseRecords :
       /\ record.periods # <<>>
       /\ "isAvailableNow" \notin DOMAIN record
  /\ \E reading \in StoreReadings :
       /\ reading[1] # NULL /\ reading[2] # NULL /\ reading[3] # NULL
       /\ getCurrentEasternContext(reading[1], reading[2], reading[3]) = NULL_OBJECT


\* "BUILDINGCODE-ROOMNUMBER" of a metadata record, both parts upper-cased
MetadataKey(record) ==
  toUpperCase(record.buildingCode) \o <<"-">> \o toUpperCase(record.roomNumber)

\* the metadata records filed under the key of `room` in `building`
MatchingRecords(building, room) ==
  IF classrooms = NULL_OBJECT \/ "rooms" \notin DOMAIN classrooms \/ ~HasCode(building)
  THEN {}
  ELSE {i \in 1..Len(classrooms.rooms) :
          MetadataKey(classrooms.rooms[i]) = building.code \o <<"-">> \o room.number}

\* the metadata of `room` is that of metadata record `record`
CarriesMetadata(room, record) ==
  /\ room.metadata # NULL_OBJECT
  /\ \A f \in {"capacity", "photo", "gallery", "features", "featureFlags", "detailUrl"} :
       room.metadata[f] = record[f]

\* a dataset without the metadata of its rooms
WithoutMetadata(d) ==
  [d EXCEPT !.buildings =
     [b \in 1..Len(d.buildings) |->
        [d.buildings[b] EXCEPT !.rooms =
           [r \in 1..Len(d.buildings[b].rooms) |->
              [d.buildings[b].rooms[r] EXCEPT !.metadata = NULL_OBJECT]]]]]

C21_NormalizeNeverThrows ==
  (storeReply.kind = "resolved" /\ storeReply.data # NULL_OBJECT) =>
    /\ normalizeAvailabilityDataset(storeReply.data) # TYPE_ERROR
    /\ \A pair \in RoomsOfDataset(normalizeAvailabilityDataset(storeReply.data)) :
         \A i \in 1..Len(pair[2].availability) :
           DOMAIN pair[2].availability[i].value = {"periods"}


(***************************************************************************)
(* GET /api/rooms/:id.                                                     *)
(***************************************************************************)
RoomAnswered == pc = "responded" /\ request.route = "room"

\* <2-4 letters>, "-" or "_" or nothing, <1-4 letters or digits>
WellFormedId(id) ==
  \E n \in 2..4, s \in 0..1, m \in 1..4 :
    /\ Len(id) = n + s + m
    /\ \A i \in 1..n : id[i] \in {UpperLetters[k] : k \in 1..Len(UpperLetters)}
    /\ s = 1 => id[n + 1] \in {"-", "_"}
    /\ \A i \in (n + s + 1)..Len(id) :
         id[i] \in {UpperLetters[k] : k \in 1..Len(UpperLetters)}
                     \cup {Digits[k] : k \in 1..Len(Digits)}

\* the rooms the identifier names: the building has the code, the room the
\* number padded to four characters, and some size of the room has a period
RoomsNamedBy(match) ==
  {pair \in RoomsOfDataset(Held) :
     /\ HasCode(pair[1])
     /\ toUpperCase(pair[1].code) = match.buildingCode
     /\ pair[2].number = ZeroPadded(match.roomNumberRaw)
     /\ \E i \in 1..Len(pair[2].availability) :
          Len(pair[2].availability[i].value.periods) > 0}

\* C22: GET /api/rooms/:id answers 400 exactly when the upper-cased id has not
\* the form <2-4 letters>[-_]<1-4 alphanumerics>, otherwise 404 exactly when
\* no building of that code holds a room of the padded number with a period,
\* and otherwise the first such building and room, with the realtime status.
C22_RoomByIdStatus ==
  RoomAnswered =>
    /\ response.status = 400 <=> ~WellFormedId(toUpperCase(request.params))
    /\ WellFormedId(toUpperCase(request.params)) =>
         /\ response.status = 404 <=> RoomsNamedBy(MatchRoomId(toUpperCase(request.params))) = {}
         /\ response.status \in {200, 404}
    /\ response.status = 200 =>
         /\ \E pair \in RoomsNamedBy(MatchRoomId(toUpperCase(request.params))) :
              /\ response.body.building.id = pair[1].id
              /\ response.body.room.number = pair[2].number
         /\ response.body.building.rooms[1] = response.body.room
         /\ context # NULL_OBJECT =>
              \A i \in 1..Len(response.body.room.availability) :
                {"isAvailableNow", "nextAvailable"}
                  \subseteq DOMAIN response.body.room.availability[i].value


\* C23: in a response of GET /api/rooms/open or GET /api/rooms/:id that was
\* computed with a time context, every size entry of every returned room
\* carries its periods list, isAvailableNow and nextAvailable, with or without
\* filters in the request.
C23_SizeEntriesCarryPeriodsAndStatus ==
  (pc = "responded" /\ context # NULL_OBJECT) =>
    \A record \in ResponseRecords :
      {"periods", "isAvailableNow", "nextAvailable"} \subseteq DOMAIN record


\* the store resolved without error and with a dataset that can be re-shaped
StoreUsable ==
  /\ storeReply.kind = "resolved"
  /\ ~storeReply.error
  /\ storeReply.data # NULL_OBJECT
  /\ normalizeAvailabilityDataset(storeReply.data) # TYPE_ERROR

\* C24: loading never fails; the dataset held is the normalized snapshot of
\* the store when the store resolved without error and with data that can be
\* normalized, and the local files are then not used; in every other case it
\* is built from the local files, and it is empty when the local schedule
\* file is unreadable.
C24_LoadNeverFailsAndPrefersStore ==
  pc # "input" =>
    /\ pc # "crashed"
    /\ IF StoreUsable
       THEN /\ origin = "store"
            /\ Held = normalizeAvailabilityDataset(storeReply.data)
       ELSE /\ origin = "files"
            /\ Held = normalizeAvailabilityDataset(buildAvailabilityDataset(stars, classrooms))
            /\ stars = NULL_OBJECT => Held.buildings = <<>>


(***************************************************************************)
(* Snapshot records that share a building id.                              *)
(***************************************************************************)
\* the positions of the snapshot's records of building id `id`
RecordsOfId(id) == {c \in 1..Len(stars.buildings) : stars.buildings[c].id = id}

FirstOfId(id) == CHOOSE c \in RecordsOfId(id) : \A d \in RecordsOfId(id) : c <= d

\* the raw entries record c lists for the room `number` under the size `key`
ListedIn(c, key, number) ==
  IF "sizes" \notin DOMAIN stars.buildings[c] THEN {}
  ELSE UNION {{stars.buildings[c].sizes[k].value[e]
                 : e \in {f \in 1..Len(stars.buildings[c].sizes[k].value) :
                            ZeroPadded(stars.buildings[c].sizes[k].value[f].ROOM) = number}}
              : k \in {j \in 1..Len(stars.buildings[c].sizes) :
                         stars.buildings[c].sizes[j].key = key}}

\* the records of id `id` that list the room under the size
ListingRecords(id, key, number) == {c \in RecordsOfId(id) : ListedIn(c, key, number) # {}}

\* the last of them
LastListing(id, key, number) ==
  CHOOSE c \in ListingRecords(id, key, number) : \A d \in ListingRecords(id, key, number) : d <= c

\* C27: a built dataset has one building per building id of the snapshot; the
\* building has the name, code, campus and coordinates of the first snapshot
\* record of its id and the rooms of all of them; and a size bucket of a room
\* holds the periods of the last record of the id that lists the room under
\* that size, nothing of the earlier ones.
C27_BuildingsMergedById ==
  /\ \A c \in 1..(IF BuildingsFromFiles = <<>> THEN 0 ELSE Len(stars.buildings)) :
       \E b \in 1..Len(BuildingsFromFiles) : BuildingsFromFiles[b].id = stars.buildings[c].id
  /\ \A b \in 1..Len(BuildingsFromFiles) :
       LET out == BuildingsFromFiles[b]
           first == stars.buildings[FirstOfId(out.id)]
       IN  /\ \A other \in 1..Len(BuildingsFromFiles) :
                BuildingsFromFiles[other].id = out.id => other = b
           /\ out.name = first.name
           /\ out.code = (IF first.code \in {NULL, <<>>} THEN NULL ELSE toUpperCase(first.code))
           /\ out.campusId = first.campusId /\ out.lat = first.lat /\ out.lng = first.lng
           /\ \A pair \in RawOfBuilding(out.id) :
                \E r \in 1..Len(out.rooms) : out.rooms[r].number = ZeroPadded(pair[2].ROOM)
           /\ \A r \in 1..Len(out.rooms) :
                \A i \in 1..Len(out.rooms[r].availability) :
                  LET key == out.rooms[r].availability[i].key
                      periods == out.rooms[r].availability[i].value.periods
                      last == LastListing(out.id, key, out.rooms[r].number)
                  IN  /\ ListingRecords(out.id, key, out.rooms[r].number) # {}
                      /\ {<<periods[j].day, periods[j].period>> : j \in 1..Len(periods)}
                           = {<<toUpperCase(entry.DAY), toUpperCase(entry.PERIOD)>>
                                : entry \in ListedIn(last, key, out.rooms[r].number)}

\* a room that two records of one building id list under one size, each with
\* a period of its own: the room shows the period of the later record
C27_Witness ==
  /\ Serving /\ origin = "files" /\ stars # NULL_OBJECT
  /\ \E b \in 1..Len(Held.buildings) :
       \E r \in 1..Len(Held.buildings[b].rooms) :
         \E i \in 1..Len(Held.buildings[b].rooms[r].availability) :
           LET key == Held.buildings[b].rooms[r].availability[i].key
               number == Held.buildings[b].rooms[r].number
               listing == ListingRecords(Held.buildings[b].id, key, number)
           IN  /\ \E c, d \in listing :
                    /\ c < d
                    /\ ListedIn(c, key, number) # ListedIn(d, key, number)
               /\ Len(Held.buildings[b].rooms[r].availability[i].value.periods) = 1


(***************************************************************************)
(* GET /api/rooms/open with a periods parameter.                           *)
(***************************************************************************)
PeriodsAnswered ==
  /\ pc = "responded" /\ request.route = "open" /\ request.revision = "periods"
  /\ request.params.periods # NULL

\* the items of a comma-separated value: its maximal stretches without a
\* comma, each without the blanks around it
ItemsOf(value) ==
  {Trim(SubSeq(value, a, b)) :
     <<a, b>> \in {pos \in (1..(Len(value) + 1)) \X (0..Len(value)) :
                     /\ pos[2] >= pos[1] - 1
                     /\ pos[1] = 1 \/ value[pos[1] - 1] = ","
                     /\ pos[2] = Len(value) \/ value[pos[2] + 1] = ","
                     /\ \A i \in pos[1]..pos[2] : value[i] # ","}}

\* the period codes the value asks for
WantedPeriods(value) == {toUpperCase(item) : item \in ItemsOf(value) \ {<<>>}}

\* the rooms the other filters of the request leave, with all their periods
UnfilteredRooms ==
  RoomsOfDataset(ValueOfFiltered(
    filterAvailability(heap, AVAILABILITY_DATASET, FiltersOfQuery(request.params.query))))

\* the periods of a list whose code is in `codes`
WantedOf(periods, codes) == SelectSeq(periods, LAMBDA entry : entry.period \in codes)

\* the fields of a size record that are not its status
ListOf(record) == [f \in DOMAIN record \ {"isAvailableNow", "nextAvailable"} |-> record[f]]

\* the size entries the response shows for the room `pair` under `key`,
\* without their status
ShownFor(shown, pair, key) ==
  {ListOf(shown[pos[1]].rooms[pos[2]].availability[pos[3]].value) :
     pos \in {q \in (1..Len(shown)) \X (1..2) \X (1..2) :
                /\ shown[q[1]].id = pair[1].id
                /\ q[2] <= Len(shown[q[1]].rooms)
                /\ shown[q[1]].rooms[q[2]].number = pair[2].number
                /\ q[3] <= Len(shown[q[1]].rooms[q[2]].availability)
                /\ shown[q[1]].rooms[q[2]].availability[q[3]].key = key}}

\* the response `shown` is the rooms `rooms` cut down to the periods `codes`
CutDownTo(shown, rooms, codes) ==
  /\ \A b \in 1..Len(shown) :
       /\ Len(shown[b].rooms) > 0
       /\ \A r \in 1..Len(shown[b].rooms) :
            /\ Len(shown[b].rooms[r].availability) > 0
            /\ \E pair \in rooms :
                 pair[1].id = shown[b].id /\ pair[2].number = shown[b].rooms[r].number
  /\ \A pair \in rooms :
       \A i \in 1..Len(pair[2].availability) :
         ShownFor(shown, pair, pair[2].availability[i].key)
           = IF WantedOf(pair[2].availability[i].value.periods, codes) = <<>> THEN {}
             ELSE {[periods |-> WantedOf(pair[2].availability[i].value.periods, codes)]}

\* the response `shown` has every room of `rooms`
ShowsAll(shown, rooms) ==
  \A pair \in rooms :
    \E b \in 1..Len(shown) :
      /\ shown[b].id = pair[1].id
      /\ \E r \in 1..Len(shown[b].rooms) : shown[b].rooms[r].number = pair[2].number

\* C28: the periods parameter of GET /api/rooms/open is a comma-separated
\* list read without regard to case and to blank items; a value of blank
\* items only is no filter; with a filter, a size entry of the response lists
\* exactly the periods of the room and size whose code is asked for, entries,
\* rooms and buildings without such a period are left out, and the status of
\* an entry is computed from the periods it lists.
C28_PeriodsFilter ==
  PeriodsAnswered =>
    IF WantedPeriods(request.params.periods) = {}
    THEN /\ parsePeriodFilters(request.params.periods) = NULL_OBJECT
         /\ ShowsAll(ResponseBuildings, UnfilteredRooms)
    ELSE /\ CutDownTo(ResponseBuildings, UnfilteredRooms,
                      WantedPeriods(request.params.periods))
         /\ context # NULL_OBJECT =>
              \A record \in ResponseRecords :
                /\ record.isAvailableNow =
                     (\E j \in 1..Len(record.periods) : InsidePeriod(record.periods[j], context))
                /\ \/ record.nextAvailable = NULL_OBJECT
                   \/ \E j \in 1..Len(record.periods) :
                        NamesPeriod(record.nextAvailable, record.periods[j])

\* a filter written in lower case and with a blank has left one period of a
\* room out of the response and kept another
C28_Witness ==
  /\ PeriodsAnswered
  /\ WantedPeriods(request.params.periods) # {}
  /\ \E item \in ItemsOf(request.params.periods) : item # toUpperCase(item)
  /\ \E pair \in UnfilteredRooms :
       \E i \in 1..Len(pair[2].availability) :
         /\ WantedOf(pair[2].availability[i].value.periods,
                     WantedPeriods(request.params.periods)) # <<>>
         /\ WantedOf(pair[2].availability[i].value.periods,
                     WantedPeriods(request.params.periods))
              # pair[2].availability[i].value.periods
  /\ \E record \in ResponseRecords : "isAvailableNow" \in DOMAIN record


(***************************************************************************)
(* The launcher (start script): main() starts the two services, an "exit"  *)
(* event of a service or a SIGINT/SIGTERM calls shutdown, shutdown kills   *)
(* the services and sets the timer that ends the launcher.                 *)
(***************************************************************************)
MaxSignals == 2

ExitCodes == {0, 1, 2}

\* how a service ends: with a code, or by a signal (and then without a code)
Outcomes ==
  [code : ExitCodes, signal : {"none"}] \cup [code : {NO_CODE}, signal : {"SIGINT", "SIGTERM"}]

\* startService: the child as spawn returns it
startService(label) == [label |-> label, proc |-> "running", killed |-> FALSE, kills |-> 0]

\* child.kill(): the signal is delivered, and child.killed set, unless the
\* child has ended and its "exit" event has been emitted
kill(i) ==
  IF children[i].proc = "running" \/ \E event \in exitEvents : event.child = i
  THEN [children[i] EXCEPT !.killed = TRUE, !.kills = @ + 1]
  ELSE [children[i] EXCEPT !.kills = @ + 1]

\* a shutdown without the shuttingDown test
shutdownAgain(code) ==
  /\ shuttingDown' = TRUE
  /\ children' = [i \in DOMAIN children |-> IF ~children[i].killed THEN kill(i) ELSE children[i]]
  /\ timers' = Append(timers, code)

\* shutdown(code)
shutdown(code) ==
  IF shuttingDown
  THEN UNCHANGED <<children, shuttingDown, timers>>
  ELSE /\ shuttingDown' = TRUE
       /\ children' = [i \in DOMAIN children |->
                         IF ~children[i].killed THEN kill(i) ELSE children[i]]
       /\ timers' = Append(timers, code)

\* main(): a directory is missing and assertDirExists ends the process, or
\* both services are started
main(found) ==
  /\ launcherPc = "main"
  /\ IF found
     THEN /\ children' = <<startService("backend"), startService("frontend")>>
          /\ launcherPc' = "running"
          /\ UNCHANGED exitCode
     ELSE /\ launcherPc' = "exited"
          /\ exitCode' = 1
          /\ UNCHANGED children
  /\ UNCHANGED <<shuttingDown, timers, exitEvents, calls, serverVars, appVars>>

\* service i ends, of itself or of a signal: its "exit" event is due
ChildExits(i, outcome) ==
  /\ launcherPc = "running"
  /\ i \in DOMAIN children
  /\ children[i].proc = "running"
  /\ children' = [children EXCEPT ![i].proc = "exited"]
  /\ exitEvents' = exitEvents \cup {[child |-> i, code |-> outcome.code, signal |-> outcome.signal]}
  /\ UNCHANGED <<shuttingDown, timers, calls, launcherPc, exitCode, serverVars, appVars>>

\* the "exit" event of service i that is due
EventOf(i) == CHOOSE event \in exitEvents : event.child = i

\* a handler of "exit" that calls shutdown(0) whatever the code
OnChildExitCodeDropped(i) ==
  /\ launcherPc = "running"
  /\ \E event \in exitEvents : event.child = i
  /\ exitEvents' = exitEvents \ {EventOf(i)}
  /\ calls' = Append(calls, [from |-> "exit", child |-> i,
                             code |-> EventOf(i).code, signal |-> EventOf(i).signal])
  /\ shutdown(0)
  /\ UNCHANGED <<launcherPc, exitCode, serverVars, appVars>>

\* child.on("exit", (code, signal) => shutdown(code ?? 0)), for service i
OnChildExit(i) ==
  /\ launcherPc = "running"
  /\ \E event \in exitEvents : event.child = i
  /\ exitEvents' = exitEvents \ {EventOf(i)}
  /\ calls' = Append(calls, [from |-> "exit", child |-> i,
                             code |-> EventOf(i).code, signal |-> EventOf(i).signal])
  /\ shutdown(IF EventOf(i).code = NO_CODE THEN 0 ELSE EventOf(i).code)
  /\ UNCHANGED <<launcherPc, exitCode, serverVars, appVars>>

\* process.on("SIGINT" / "SIGTERM", () => shutdown(0))
OnSignal(name) ==
  /\ launcherPc = "running"
  /\ Cardinality({k \in DOMAIN calls : calls[k].from = "signal"}) < MaxSignals
  /\ calls' = Append(calls, [from |-> "signal", child |-> 0, code |-> NO_CODE, signal |-> name])
  /\ shutdown(0)
  /\ UNCHANGED <<exitEvents, launcherPc, exitCode, serverVars, appVars>>

\* the timer of shutdown runs: process.exit(code)
ProcessExit ==
  /\ launcherPc = "running"
  /\ timers # <<>>
  /\ launcherPc' = "exited"
  /\ exitCode' = timers[1]
  /\ UNCHANGED <<children, shuttingDown, timers, exitEvents, calls, serverVars, appVars>>

\* the server and App do not run in the launcher model
InitLauncher ==
  /\ stars = NULL_OBJECT
  /\ classrooms = NULL_OBJECT
  /\ dataset = NULL_OBJECT
  /\ origin = "none"
  /\ storeReply = NoStore
  /\ AVAILABILITY_DATASET = NULL_OBJECT
  /\ heap = <<>>
  /\ pc = "input"
  /\ request = NULL_OBJECT
  /\ context = NULL_OBJECT
  /\ response = NULL_OBJECT
  /\ LauncherNotStarted
  /\ AppNotMounted

NextLauncher ==
  \/ \E found \in BOOLEAN : main(found)
  \/ \E i \in 1..2, outcome \in Outcomes : ChildExits(i, outcome)
  \/ \E i \in 1..2 : OnChildExit(i)
  \/ \E name \in {"SIGINT", "SIGTERM"} : OnSignal(name)
  \/ ProcessExit

SpecLauncher == InitLauncher /\ [][NextLauncher]_vars

\* the timer set by setTimeout runs once its 500 ms are over
SpecLauncherLive == SpecLauncher /\ WF_vars(ProcessExit)

\* the cause of the first call of shutdown
SignalFirst == calls # <<>> /\ calls[1].from = "signal"

ExitFirst == calls # <<>> /\ calls[1].from = "exit"

Exited == launcherPc = "exited"

\* C25: when the first call of shutdown is that of a SIGINT or SIGTERM, every
\* service is sent one kill, never a second one, one timer is set, with code
\* 0, whatever "exit" events and signals follow, and the launcher eventually
\* exits with code 0.
C25_SignalStopsBoth ==
  /\ [](SignalFirst =>
          /\ \A i \in DOMAIN children : children[i].kills = 1
          /\ timers = <<0>>
          /\ Exited => exitCode = 0)
  /\ SignalFirst ~> (Exited /\ exitCode = 0)

\* the launcher has exited with 0 after a signal, a second signal and the
\* "exit" event of a killed service
C25_Witness ==
  /\ Exited /\ exitCode = 0
  /\ SignalFirst
  /\ \E k \in 2..Len(calls) : calls[k].from = "signal"
  /\ \E k \in 2..Len(calls) :
       calls[k].from = "exit" /\ calls[k].code # 0 /\ children[calls[k].child].killed

\* C26: when the first call of shutdown is that of the "exit" event of a
\* service, the other service is sent a kill, one timer is set, with the code
\* of that event (0 when the service was ended by a signal), whatever events
\* follow, and the launcher eventually exits with that code.
C26_ExitOfOneStopsOther ==
  /\ [](ExitFirst =>
          /\ \A i \in DOMAIN children :
               i # calls[1].child =>
                 /\ children[i].kills = 1
                 /\ children[i].killed \/ children[i].proc = "exited"
          /\ timers = <<IF calls[1].signal # "none" THEN 0 ELSE calls[1].code>>
          /\ Exited => exitCode = timers[1])
  /\ ExitFirst ~>
       (/\ Exited
        /\ ExitFirst
        /\ exitCode = (IF calls[1].signal # "none" THEN 0 ELSE calls[1].code))

\* the launcher has exited with the code of the service that ended first,
\* after the "exit" event of the other service, which carried another code
C26_Witness ==
  /\ Exited /\ exitCode = 2
  /\ ExitFirst /\ calls[1].code = 2
  /\ \E k \in 2..Len(calls) : calls[k].from = "exit" /\ calls[k].code # 2


(***************************************************************************)
(* The room list (App): the effect on [periods] starts a request with a    *)
(* flag isMounted of its own, the cleanup of the effect clears that flag,  *)
(* and the continuation of the request writes only while its flag is set.  *)
(* An effect run also keeps, as settledAt, how many runs there were when   *)
(* its request was settled (0 before).                                     *)
(***************************************************************************)
MaxEffects == 3

PeriodButtons == {1, 2, 11}

\* Array.prototype.join(",") on numbers
RECURSIVE join(_)
join(numbers) ==
  IF numbers = <<>> THEN <<>>
  ELSE IF Len(numbers) = 1 THEN NatToStr(numbers[1])
  ELSE NatToStr(numbers[1]) \o <<",">> \o join(Tail(numbers))

\* the query of fetchStudyRooms.rooms(periods.length ? { periods } : {})
QueryOf(numbers) == IF Len(numbers) > 0 THEN [periods |-> join(numbers)] ELSE <<>>

\* what the server answers request k, and the message of its failure
PayloadOf(k) == [DEFAULT_STATE EXCEPT !.fetchedAt = <<"t">> \o NatToStr(k)]

MessageOf(k) == <<"E">> \o NatToStr(k)

\* the cleanup of every effect run so far, then a run of the effect with
\* `numbers` as periods: setIsLoading(true), setError(null), the request
RunEffect(numbers) ==
  /\ effects' = Append([k \in DOMAIN effects |-> [effects[k] EXCEPT !.isMounted = FALSE]],
                       [isMounted |-> TRUE, request |-> "pending", query |-> QueryOf(numbers),
                        settledAt |-> 0])
  /\ isLoading' = TRUE
  /\ displayedError' = NULL
  /\ UNCHANGED displayedData

\* the first commit of App
Mount ==
  /\ effects = <<>>
  /\ RunEffect(selectedPeriods)
  /\ UNCHANGED <<selectedPeriods, serverVars, launcherVars>>

\* periodPressed(period) and the render it causes
periodPressed(period) ==
  /\ effects # <<>>
  /\ effects[Len(effects)].isMounted
  /\ Len(effects) < MaxEffects
  /\ selectedPeriods' =
       IF \E k \in DOMAIN selectedPeriods : selectedPeriods[k] = period
       THEN SelectSeq(selectedPeriods, LAMBDA p : p # period)
       ELSE Append(selectedPeriods, period)
  /\ RunEffect(selectedPeriods')
  /\ UNCHANGED <<serverVars, launcherVars>>

\* a continuation that does not look at isMounted
SettleUnguarded(k, fulfilled) ==
  /\ k \in DOMAIN effects
  /\ effects[k].request = "pending"
  /\ effects' = [effects EXCEPT ![k].request = IF fulfilled THEN "fulfilled" ELSE "rejected",
                                ![k].settledAt = Len(effects)]
  /\ IF fulfilled
     THEN displayedData' = PayloadOf(k) /\ UNCHANGED displayedError
     ELSE displayedError' = MessageOf(k) /\ UNCHANGED displayedData
  /\ isLoading' = FALSE
  /\ UNCHANGED <<selectedPeriods, serverVars, launcherVars>>

\* the request of effect run k is fulfilled or rejected: the rest of
\* loadOpenRooms (try, catch, finally)
Settle(k, fulfilled) ==
  /\ k \in DOMAIN effects
  /\ effects[k].request = "pending"
  /\ effects' = [effects EXCEPT ![k].request = IF fulfilled THEN "fulfilled" ELSE "rejected",
                                ![k].settledAt = Len(effects)]
  /\ IF effects[k].isMounted
     THEN /\ IF fulfilled
             THEN displayedData' = PayloadOf(k) /\ UNCHANGED displayedError
             ELSE displayedError' = MessageOf(k) /\ UNCHANGED displayedData
          /\ isLoading' = FALSE
     ELSE UNCHANGED <<displayedData, displayedError, isLoading>>
  /\ UNCHANGED <<selectedPeriods, serverVars, launcherVars>>

\* App is unmounted: the cleanup of the last effect run
Unmount ==
  /\ effects # <<>>
  /\ effects[Len(effects)].isMounted
  /\ effects' = [k \in DOMAIN effects |-> [effects[k] EXCEPT !.isMounted = FALSE]]
  /\ UNCHANGED <<selectedPeriods, displayedData, displayedError, isLoading,
                 serverVars, launcherVars>>

\* the server and the launcher do not run in the model of App
InitApp == InitLauncher

NextApp ==
  \/ Mount
  \/ \E period \in PeriodButtons : periodPressed(period)
  \/ \E k \in 1..MaxEffects, fulfilled \in BOOLEAN : Settle(k, fulfilled)
  \/ Unmount

SpecApp == InitApp /\ [][NextApp]_vars

\* the request of effect run k is settled in this step
Settles(k) ==
  /\ k \in DOMAIN effects
  /\ effects[k].request = "pending"
  /\ effects'[k].request # "pending"

\* C29: a change of the selected periods starts one request, for the new
\* selection, and clears the flag of every earlier one; the displayed data
\* and a displayed error are written only in the step that settles the
\* request started last, with its payload or its message, and isLoading is
\* cleared only in such a step.
C29_OnlyLatestRequestWrites ==
  [][/\ selectedPeriods' # selectedPeriods =>
          /\ Len(effects') = Len(effects) + 1
          /\ effects'[Len(effects')] =
               [isMounted |-> TRUE, request |-> "pending", query |-> QueryOf(selectedPeriods'),
                settledAt |-> 0]
          /\ \A k \in DOMAIN effects : ~effects'[k].isMounted
     /\ displayedData' # displayedData =>
          /\ Settles(Len(effects))
          /\ displayedData' = PayloadOf(Len(effects))
     /\ (displayedError' # displayedError /\ displayedError' # NULL) =>
          /\ Settles(Len(effects))
          /\ displayedError' = MessageOf(Len(effects))
     /\ (isLoading /\ ~isLoading') => Settles(Len(effects))
     /\ \A k \in DOMAIN effects :
          (Settles(k) /\ k # Len(effects)) =>
            UNCHANGED <<displayedData, displayedError, isLoading>>]_vars

\* the answer to an earlier request came after a later request was started
\* and was dropped; then the later request was answered and its payload shown
C29_Witness ==
  /\ Len(effects) >= 2
  /\ effects[1].request = "fulfilled"
  /\ effects[1].settledAt > 1
  /\ effects[Len(effects)].request = "fulfilled"
  /\ effects[1].query # effects[Len(effects)].query
  /\ displayedData = PayloadOf(Len(effects))
  /\ ~isLoading
  /\ \E k \in DOMAIN effects : effects[k].request = "rejected"
  /\ displayedError = NULL

====
